---- MODULE Spec2Model ----
(***************************************************************************)
(* Cafe Brew House point-of-sale front end: the Dashboard order panel and   *)
(* bill generation (frontend/src/pages/Dashboard.jsx), the menu editor      *)
(* (MenuManagement.jsx), the bill history page (BillHistory, second half of *)
(* pages/Inventory.jsx) and the backend collections they talk to.           *)
(*                                                                          *)
(* Money is held in integers.  Unit prices are cents; the derived amounts   *)
(* of the bill (subtotal, discountAmount, taxableAmount, taxAmount, total)  *)
(* are numerators over Scale, so that the two divisions by 100 of the bill  *)
(* arithmetic are exact.  Percents are whole numbers.                       *)
(*                                                                          *)
(* An event handler is one action; an awaited request is split at the       *)
(* await into the step that issues it, the backend's step and the step      *)
(* that resumes the handler with the response (or the rejection).           *)
(* `toast' is the message the latest step raised (NoToast when none).       *)
(***************************************************************************)
EXTENDS Integers, Sequences, FiniteSets, TLC

\* ------------------------------------------------------------------ bounds
MaxQty == 2
MaxBills == 2
MaxCalls == 1
MaxAdjustments == 2
MaxReads == 2
MaxOptions == 2
MaxModifiers == 1

\* ------------------------------------------------------- data and inputs
ItemIds == {1, 2}
Scale == 100 * 100
PercentInputs == {-5, 10, 150}
TextInputs == {"", "x"}
CurrencyCodes == {"EUR", "USD"}
Dates == {1, 2}
TransactionTypes == {"restock", "waste", "adjustment"}
AdjustQuantities == {3, 8}
InitialStock == 5
BillDiscountInputs == {-5}
BillTaxInputs == {150}
ModifierNames == {"", "Size"}
OptionNames == {"", " ", "S"}

NoToast == "none"
Null == [null |-> TRUE]
NoId == 0
\* the empty string of a date field
NoDate == 0
\* the empty string of the price field
EmptyPrice == -1
emptyItem == [price |-> EmptyPrice, available |-> TRUE]
PriceInputs == {EmptyPrice, 250}

VARIABLES
    \* backend collections
    menu_items,        \* id -> [price, available]
    bills,             \* sequence of stored bills, in insertion order
    bill_counter,      \* last bill_number handed out
    today,             \* the backend's calendar day
    \* Dashboard component state
    menuItems, loading, orderItems, discountPercent, taxPercent,
    generatedBill, customerName, tableNumber, nif, currency,
    categories, selectedCategory,
    \* requests of the Dashboard in flight
    fetchMenuCall,     \* GET /menu issued on mount
    fetchCategoriesCall, \* GET /menu/categories issued on mount
    billReqs,          \* POST /bills bodies not yet handled by the backend
    billResps,         \* POST /bills responses not yet delivered
    \* MenuManagement component state (a second terminal)
    mm_menuItems, mm_loading, mm_formData, mm_editingId, mm_isDialogOpen,
    mm_calls,          \* requests of MenuManagement in flight, with their state
    \* BillHistory component state (a second terminal)
    bh_bills, bh_loading, bh_searchTerm, bh_startDate, bh_endDate,
    bh_calls,          \* GET /bills requests of BillHistory in flight, with their state
    bh_timers,         \* setTimeout callbacks of clearFilters not yet run
    \* SalesReport component state (a third terminal), the daily tab
    sr_dailyReport, sr_selectedDate, sr_loading,
    sr_rangeReport, sr_startDate, sr_endDate,
    sr_calls,          \* GET /reports/daily requests in flight, with their state
    route,             \* the path the router of the reading terminal shows
    \* backend: the inventory records and the ledger of stock transactions
    inventory_records, stock_transactions,
    \* Inventory component state (a terminal of its own)
    iv_inventory, iv_transactions, iv_loading, adjustForm, isAdjustDialogOpen,
    iv_calls,          \* requests of Inventory in flight, with their state
    \* backend: the modifiers collection
    modifier_store,
    \* Settings component state (a terminal of its own)
    st_modifiers, st_loading, modifierForm, editingModifier, isModifierDialogOpen,
    st_calls,          \* requests of Settings in flight, with their state
    \* the browser of the session terminal: localStorage and the router's path
    token, user, location,
    \* Login component state
    lg_loading, lg_isRegister,
    lg_calls,          \* auth requests in flight, with their state
    toast

customerVars == <<customerName, tableNumber, nif, currency>>
categoryVars == <<categories, selectedCategory, fetchCategoriesCall>>
dashVars == <<menuItems, loading, orderItems, discountPercent, taxPercent, generatedBill,
              customerVars, categoryVars>>
serverVars == <<menu_items, bills, bill_counter, today>>
netVars == <<fetchMenuCall, billReqs, billResps>>
mmVars == <<mm_menuItems, mm_loading, mm_formData, mm_editingId, mm_isDialogOpen,
            mm_calls>>
bhVars == <<bh_bills, bh_loading, bh_searchTerm, bh_startDate, bh_endDate, bh_calls,
            bh_timers>>
srRange == <<sr_rangeReport, sr_startDate, sr_endDate>>
srVars == <<sr_dailyReport, sr_selectedDate, sr_loading, sr_calls, srRange>>
stockVars == <<inventory_records, stock_transactions>>
ivPage == <<iv_inventory, iv_transactions, iv_loading, adjustForm, isAdjustDialogOpen>>
ivVars == <<ivPage, iv_calls>>
stVars == <<modifier_store, st_modifiers, st_loading, modifierForm, editingModifier,
            isModifierDialogOpen, st_calls>>
sessionVars == <<token, user, location>>
lgVars == <<lg_loading, lg_isRegister, lg_calls>>
otherThanDashboard == <<mmVars, bhVars, srVars, route, stockVars, ivVars,
    stVars, sessionVars, lgVars>>
otherThanMenu == <<dashVars, netVars, bhVars, srVars, route, stockVars, ivVars,
    stVars, sessionVars, lgVars>>
otherThanHistory == <<dashVars, netVars, mmVars, srVars, route, stockVars, ivVars,
    stVars, sessionVars, lgVars>>
otherThanReport == <<dashVars, netVars, mmVars, bhVars, route, stockVars, ivVars,
    stVars, sessionVars, lgVars>>
otherThanInventory == <<dashVars, netVars, mmVars, bhVars, srVars, route, stVars, token,
                        user, lgVars>>
otherThanSettings == <<dashVars, netVars, mmVars, bhVars, srVars, route, stockVars, ivVars,
                       sessionVars, lgVars>>
otherThanLogin == <<dashVars, netVars, mmVars, bhVars, srVars, route, stockVars, ivVars,
                    stVars>>
vars == <<serverVars, dashVars, netVars, mmVars, bhVars, srVars, route, stockVars,
          ivVars, toast,
          stVars, sessionVars, lgVars>>

\* ----------------------------------------------------------------- helpers
Min(a, b) == IF a < b THEN a ELSE b
Max(a, b) == IF a > b THEN a ELSE b

Range(s) == {s[i] : i \in DOMAIN s}

RECURSIVE SortedIds(_)
SortedIds(S) ==
    IF S = {} THEN <<>>
    ELSE LET m == CHOOSE x \in S : \A y \in S : x <= y
         IN <<m>> \o SortedIds(S \ {m})

\* GET /menu: every stored item, as a list
MenuResponse(m) ==
    LET ids == SortedIds(DOMAIN m)
    IN [i \in DOMAIN ids |-> [id |-> ids[i], price |-> m[ids[i]].price,
                              available |-> m[ids[i]].available]]

\* --------------------------------------------------- Dashboard: the bill
\* mutant: the quantity is left out of the sum
RECURSIVE ReduceSumUnitPrices(_, _)
ReduceSumUnitPrices(items, sum) ==
    IF items = <<>> THEN sum
    ELSE ReduceSumUnitPrices(Tail(items), sum + Head(items).price)

\* orderItems.reduce((sum, item) => sum + item.price * item.quantity, 0)
RECURSIVE ReduceSum(_, _)
ReduceSum(items, sum) ==
    IF items = <<>> THEN sum
    ELSE ReduceSum(Tail(items), sum + (Head(items).price * Head(items).quantity))

subtotal == Scale * ReduceSum(orderItems, 0)
\* mutant: the discount is taken at the tax rate
discountAmountAtTaxRate == (subtotal \div 100) * taxPercent
discountAmount == (subtotal \div 100) * discountPercent
taxableAmount == subtotal - discountAmount
\* mutant: the tax is taken on the undiscounted subtotal
taxAmountOnSubtotal == (subtotal \div 100) * taxPercent
\* mutant: a tax percent of 0 falls back to the default rate (taxPercent || 23)
taxAmountDefaultRate ==
    (taxableAmount \div 100) * (IF taxPercent = 0 THEN 23 ELSE taxPercent)
taxAmount == (taxableAmount \div 100) * taxPercent
\* mutant: the tax is subtracted
totalLessTax == taxableAmount - taxAmount
total == taxableAmount + taxAmount

\* mutants: one of the two bounds is forgotten
ClampPercentNoUpper(v) == Max(0, v)
ClampPercentNoLower(v) == Min(100, v)

\* Math.min(100, Math.max(0, Number(e.target.value)))
ClampPercent(v) == Min(100, Max(0, v))

\* ------------------------------------------------- Dashboard: mount, menu
\* the backend's collections: a menu of the given items, no bill yet
InitBackend(ids) ==
    /\ menu_items = [i \in ids |-> [price |-> IF i = 1 THEN 300 ELSE 150,
                                    available |-> TRUE]]
    /\ bills = <<>>
    /\ bill_counter = 0
    /\ today = 1

\* the Dashboard with its useState defaults; callState is "request" right
\* after mount (the mount effect has issued fetchMenu and fetchCategories) and
\* "done" while the Dashboard is not mounted
InitDashboardState(callState) ==
    /\ menuItems = <<>>
    /\ loading = TRUE
    /\ orderItems = <<>>
    /\ discountPercent = 0
    /\ taxPercent = 23
    /\ generatedBill = Null
    /\ customerName = ""
    /\ tableNumber = ""
    /\ nif = ""
    /\ currency = "EUR"
    /\ categories = <<"All">>
    /\ selectedCategory = "All"
    /\ fetchMenuCall = [state |-> callState]
    /\ fetchCategoriesCall = [state |-> callState]
    /\ billReqs = <<>>
    /\ billResps = <<>>
    /\ toast = NoToast

\* the Dashboard right after mount
InitDashboard == InitDashboardState("request")

\* MenuManagement: the useState defaults; calls holds the requests its mount issues
InitMenuManagement(calls) ==
    /\ mm_menuItems = <<>>
    /\ mm_loading = TRUE
    /\ mm_formData = emptyItem
    /\ mm_editingId = NoId
    /\ mm_isDialogOpen = FALSE
    /\ mm_calls = calls

\* BillHistory: the useState defaults; calls holds the requests its mount issues
InitBillHistory(calls) ==
    /\ bh_bills = <<>>
    /\ bh_loading = TRUE
    /\ bh_searchTerm = ""
    /\ bh_startDate = NoDate
    /\ bh_endDate = NoDate
    /\ bh_calls = calls
    /\ bh_timers = 0

\* SalesReport: the useState defaults; the mount effect's fetchDailyReport sets
\* loading and issues the requests of calls
InitSalesReport(calls) ==
    /\ sr_dailyReport = Null
    /\ sr_selectedDate = today
    /\ sr_loading = (calls /= <<>>)
    /\ sr_calls = calls
    /\ sr_rangeReport = Null
    /\ sr_startDate = NoDate
    /\ sr_endDate = NoDate
    /\ route = (IF calls = <<>> THEN "/history" ELSE "/reports")

\* Inventory: the useState defaults, one inventory record in the backend;
\* calls holds the requests the mount effect issues
InitInventory(calls) ==
    /\ inventory_records = [id \in {1} |-> [current_stock |-> InitialStock]]
    /\ stock_transactions = <<>>
    /\ iv_inventory = <<>>
    /\ iv_transactions = <<>>
    /\ iv_loading = TRUE
    /\ adjustForm = [inventory_id |-> NoId, quantity |-> 0, transaction_type |-> "restock"]
    /\ isAdjustDialogOpen = FALSE
    /\ iv_calls = calls

\* Settings: the useState defaults, no modifier in the backend; calls holds the
\* requests the mount effect issues
emptyModifier == [name |-> "", options |-> <<"">>]

InitSettings(calls) ==
    /\ modifier_store = <<>>
    /\ st_modifiers = <<>>
    /\ st_loading = TRUE
    /\ modifierForm = emptyModifier
    /\ editingModifier = NoId
    /\ isModifierDialogOpen = FALSE
    /\ st_calls = calls

\* the session terminal: a browser whose localStorage holds tok, showing the
\* Login page with its useState defaults
InitSession(tok) ==
    /\ token = tok
    /\ user = Null
    /\ location = "/login"
    /\ lg_loading = FALSE
    /\ lg_isRegister = FALSE
    /\ lg_calls = <<>>

Init ==
    /\ InitBackend(ItemIds)
    /\ InitDashboard
    /\ InitMenuManagement(<<>>)
    /\ InitBillHistory(<<>>)
    /\ InitSalesReport(<<>>)
    /\ InitInventory(<<>>)
    /\ InitSettings(<<>>)
    /\ InitSession(Null)

\* backend answers GET /menu
ServerGetMenu ==
    /\ fetchMenuCall.state = "request"
    /\ fetchMenuCall' = [state |-> "response", data |-> MenuResponse(menu_items)]
    /\ toast' = NoToast
    /\ UNCHANGED <<otherThanDashboard, serverVars, dashVars, billReqs, billResps>>

\* fetchMenu after the await: setMenuItems(res.data.filter(item => item.available))
FetchMenuResolve ==
    /\ fetchMenuCall.state = "response"
    /\ menuItems' = SelectSeq(fetchMenuCall.data, LAMBDA item : item.available)
    /\ loading' = FALSE
    /\ fetchMenuCall' = [state |-> "done"]
    /\ toast' = NoToast
    /\ UNCHANGED <<otherThanDashboard, serverVars, customerVars, categoryVars, orderItems, discountPercent, taxPercent,
                   generatedBill, billReqs, billResps>>

\* fetchMenu: the request is rejected
FetchMenuReject ==
    /\ fetchMenuCall.state = "request"
    /\ loading' = FALSE
    /\ fetchMenuCall' = [state |-> "done"]
    /\ toast' = "Failed to load menu"
    /\ UNCHANGED <<otherThanDashboard, serverVars, customerVars, categoryVars, menuItems, orderItems, discountPercent, taxPercent,
                   generatedBill, billReqs, billResps>>

\* ------------------------------------------------ Dashboard: categories
\* the category of a menu item
CategoryOf(id) == IF id = 1 THEN "Coffee" ELSE "Tea"

\* GET /menu/categories: the categories of the stored items
MenuCategories(m) ==
    LET ids == SortedIds(DOMAIN m)
    IN [i \in DOMAIN ids |-> CategoryOf(ids[i])]

ServerGetCategories ==
    /\ fetchCategoriesCall.state = "request"
    /\ fetchCategoriesCall' = [state |-> "response", data |-> MenuCategories(menu_items)]
    /\ toast' = NoToast
    /\ UNCHANGED <<otherThanDashboard, serverVars, netVars, menuItems, loading, orderItems,
                   discountPercent, taxPercent, generatedBill, customerVars, categories,
                   selectedCategory>>

\* fetchCategories after the await: setCategories(["All", ...res.data])
FetchCategoriesResolve ==
    /\ fetchCategoriesCall.state = "response"
    /\ categories' = <<"All">> \o fetchCategoriesCall.data
    /\ fetchCategoriesCall' = [state |-> "done"]
    /\ toast' = NoToast
    /\ UNCHANGED <<otherThanDashboard, serverVars, netVars, menuItems, loading, orderItems,
                   discountPercent, taxPercent, generatedBill, customerVars,
                   selectedCategory>>

\* fetchCategories: the request is rejected; the catch only logs to the console
FetchCategoriesReject ==
    /\ fetchCategoriesCall.state = "request"
    /\ fetchCategoriesCall' = [state |-> "done"]
    /\ toast' = NoToast
    /\ UNCHANGED <<otherThanDashboard, serverVars, netVars, menuItems, loading, orderItems,
                   discountPercent, taxPercent, generatedBill, customerVars, categories,
                   selectedCategory>>

\* a category pill
SetSelectedCategory(cat) ==
    /\ selectedCategory' = cat
    /\ toast' = NoToast
    /\ UNCHANGED <<otherThanDashboard, serverVars, netVars, menuItems, loading, orderItems,
                   discountPercent, taxPercent, generatedBill, customerVars, categories,
                   fetchCategoriesCall>>

\* the items the menu grid shows
filteredItems ==
    IF selectedCategory = "All"
    THEN menuItems
    ELSE SelectSeq(menuItems, LAMBDA item : CategoryOf(item.id) = selectedCategory)

\* ------------------------------------------------ Dashboard: order edits
HasLine(items, id) == \E i \in DOMAIN items : items[i].menu_item_id = id

IncrementLine(o, id) ==
    IF o.menu_item_id = id THEN [o EXCEPT !.quantity = o.quantity + 1] ELSE o

\* mutant: adding an item again re-reads its current price from the menu store
addToOrderItemsRepriced(items, item) ==
    IF HasLine(items, item.id)
    THEN [i \in DOMAIN items |->
            IF items[i].menu_item_id = item.id
            THEN [items[i] EXCEPT !.quantity = items[i].quantity + 1,
                                  !.price = menu_items[item.id].price]
            ELSE items[i]]
    ELSE Append(items, [menu_item_id |-> item.id, price |-> item.price, quantity |-> 1])

\* mutant: an item is always added as a new line
addToOrderItemsAppended(items, item) ==
    Append(items, [menu_item_id |-> item.id, price |-> item.price, quantity |-> 1])

addToOrderItems(items, item) ==
    IF HasLine(items, item.id)
    THEN [i \in DOMAIN items |-> IncrementLine(items[i], item.id)]
    ELSE Append(items, [menu_item_id |-> item.id, price |-> item.price, quantity |-> 1])

AddToOrder(item) ==
    /\ generatedBill' = Null
    /\ orderItems' = addToOrderItems(orderItems, item)
    /\ toast' = "Added"
    /\ UNCHANGED <<otherThanDashboard, serverVars, customerVars, categoryVars, netVars, menuItems, loading, discountPercent, taxPercent>>

ChangeLine(o, itemId, delta) ==
    IF o.menu_item_id = itemId
    THEN LET newQty == o.quantity + delta
         IN IF newQty > 0 THEN [o EXCEPT !.quantity = newQty] ELSE o
    ELSE o

\* mutant: the new quantity is stored whatever its sign and nothing is filtered
updateQuantityItemsUnguarded(items, itemId, delta) ==
    [i \in DOMAIN items |->
        IF items[i].menu_item_id = itemId
        THEN [items[i] EXCEPT !.quantity = items[i].quantity + delta] ELSE items[i]]

updateQuantityItems(items, itemId, delta) ==
    SelectSeq([i \in DOMAIN items |-> ChangeLine(items[i], itemId, delta)],
              LAMBDA o : o.quantity > 0)

UpdateQuantity(itemId, delta) ==
    /\ generatedBill' = Null
    /\ orderItems' = updateQuantityItems(orderItems, itemId, delta)
    /\ toast' = NoToast
    /\ UNCHANGED <<otherThanDashboard, serverVars, customerVars, categoryVars, netVars, menuItems, loading, discountPercent, taxPercent>>

RemoveFromOrder(itemId) ==
    /\ generatedBill' = Null
    /\ orderItems' = SelectSeq(orderItems, LAMBDA o : o.menu_item_id /= itemId)
    /\ toast' = "Item removed"
    /\ UNCHANGED <<otherThanDashboard, serverVars, customerVars, categoryVars, netVars, menuItems, loading, discountPercent, taxPercent>>

\* mutant: the tax percent goes back to its default with the rest of the order
ClearOrderResetsTax ==
    /\ orderItems' = <<>>
    /\ discountPercent' = 0
    /\ taxPercent' = 23
    /\ customerName' = ""
    /\ tableNumber' = ""
    /\ nif' = ""
    /\ generatedBill' = Null
    /\ toast' = "Order cleared"
    /\ UNCHANGED <<otherThanDashboard, serverVars, netVars, categoryVars, menuItems, loading,
                   currency>>

ClearOrder ==
    /\ orderItems' = <<>>
    /\ discountPercent' = 0
    /\ customerName' = ""
    /\ tableNumber' = ""
    /\ nif' = ""
    /\ generatedBill' = Null
    /\ toast' = "Order cleared"
    /\ UNCHANGED <<otherThanDashboard, serverVars, netVars, categoryVars, menuItems, loading,
                   taxPercent, currency>>

\* the Customer, Table # and NIF fields and the currency select
SetCustomerName(value) ==
    /\ customerName' = value
    /\ toast' = NoToast
    /\ UNCHANGED <<otherThanDashboard, serverVars, netVars, categoryVars, menuItems, loading, orderItems,
                   discountPercent, taxPercent, generatedBill, tableNumber, nif, currency>>

SetTableNumber(value) ==
    /\ tableNumber' = value
    /\ toast' = NoToast
    /\ UNCHANGED <<otherThanDashboard, serverVars, netVars, categoryVars, menuItems, loading, orderItems,
                   discountPercent, taxPercent, generatedBill, customerName, nif, currency>>

SetNif(value) ==
    /\ nif' = value
    /\ toast' = NoToast
    /\ UNCHANGED <<otherThanDashboard, serverVars, netVars, categoryVars, menuItems, loading, orderItems,
                   discountPercent, taxPercent, generatedBill, customerName, tableNumber,
                   currency>>

SetCurrency(value) ==
    /\ currency' = value
    /\ toast' = NoToast
    /\ UNCHANGED <<otherThanDashboard, serverVars, netVars, categoryVars, menuItems, loading, orderItems,
                   discountPercent, taxPercent, generatedBill, customerName, tableNumber,
                   nif>>

SetDiscountPercent(value) ==
    /\ generatedBill' = Null
    /\ discountPercent' = ClampPercent(value)
    /\ toast' = NoToast
    /\ UNCHANGED <<otherThanDashboard, serverVars, customerVars, categoryVars, netVars, menuItems, loading, orderItems, taxPercent>>

SetTaxPercent(value) ==
    /\ generatedBill' = Null
    /\ taxPercent' = ClampPercent(value)
    /\ toast' = NoToast
    /\ UNCHANGED <<otherThanDashboard, serverVars, customerVars, categoryVars, netVars, menuItems, loading, orderItems, discountPercent>>

\* ---------------------------------------------- Dashboard: generateBill
RemoveAt(s, i) == SubSeq(s, 1, i - 1) \o SubSeq(s, i + 1, Len(s))

\* the body of POST /bills
BillRequest ==
    [items |-> orderItems, discount_percent |-> discountPercent,
     tax_percent |-> taxPercent, customer_name |-> customerName,
     table_number |-> tableNumber, nif |-> nif, currency |-> currency]

\* mutant: the empty-order guard is missing
GenerateBillUnguarded ==
    /\ billReqs' = Append(billReqs, BillRequest)
    /\ toast' = NoToast
    /\ UNCHANGED <<otherThanDashboard, serverVars, dashVars, fetchMenuCall, billResps>>

\* generateBill up to the await: the guard, then axios.post(`${API}/bills`, {...})
GenerateBill ==
    IF Len(orderItems) = 0
    THEN /\ toast' = "Add items to generate bill"
         /\ UNCHANGED <<otherThanDashboard, serverVars, netVars, dashVars>>
    ELSE /\ billReqs' = Append(billReqs, BillRequest)
         /\ toast' = NoToast
         /\ UNCHANGED <<otherThanDashboard, serverVars, dashVars, fetchMenuCall, billResps>>

\* generateBill after the await: setGeneratedBill(res.data)
GenerateBillResolve(j) ==
    /\ billResps[j].ok
    /\ generatedBill' = billResps[j].data
    /\ billResps' = RemoveAt(billResps, j)
    /\ toast' = "Bill generated"
    /\ UNCHANGED <<otherThanDashboard, serverVars, customerVars, categoryVars, menuItems, loading, orderItems, discountPercent,
                   taxPercent, fetchMenuCall, billReqs>>

\* generateBill, catch branch: the awaited request was rejected
GenerateBillReject(j) ==
    /\ ~billResps[j].ok
    /\ billResps' = RemoveAt(billResps, j)
    /\ toast' = "Failed to generate bill"
    /\ UNCHANGED <<otherThanDashboard, serverVars, dashVars, fetchMenuCall, billReqs>>

\* the request does not reach the backend: axios rejects it
BillRequestFails(i) ==
    /\ billReqs' = RemoveAt(billReqs, i)
    /\ billResps' = Append(billResps, [ok |-> FALSE])
    /\ toast' = NoToast
    /\ UNCHANGED <<otherThanDashboard, serverVars, dashVars, fetchMenuCall>>

\* ------------------------------------------------- backend: POST /bills
ValidBillRequest(req) ==
    /\ Len(req.items) > 0
    /\ req.discount_percent >= 0 /\ req.discount_percent <= 100
    /\ req.tax_percent >= 0 /\ req.tax_percent <= 100

\* mutant: the counter is read but not advanced
NextBillNumberStale(counter) == Max(counter, 1)
NextBillNumber(counter) == counter + 1

\* the Bill Calculator, run once when the bill is created
CreateBill(req, number, day) ==
    LET sub == Scale * ReduceSum(req.items, 0)
        disc == (sub \div 100) * req.discount_percent
        taxable == sub - disc
        tax == (taxable \div 100) * req.tax_percent
    IN [bill_number |-> number, items |-> req.items,
        discount_percent |-> req.discount_percent, tax_percent |-> req.tax_percent,
        subtotal |-> sub, discount_amount |-> disc, tax_amount |-> tax,
        total |-> taxable + tax, currency |-> req.currency,
        customer_name |-> req.customer_name, table_number |-> req.table_number,
        nif |-> req.nif, created_at |-> day]

\* mutant: the store keeps the latest bill only
StoreBillOverwrite(store, bill) == <<bill>>
\* the bill store's write
StoreBill(store, bill) == Append(store, bill)

ServerPostBills(i) ==
    /\ billReqs' = RemoveAt(billReqs, i)
    /\ toast' = NoToast
    /\ IF ValidBillRequest(billReqs[i])
       THEN LET bill == CreateBill(billReqs[i], NextBillNumber(bill_counter), today)
            IN /\ bill_counter' = bill.bill_number
               /\ bills' = StoreBill(bills, bill)
               /\ billResps' = Append(billResps, [ok |-> TRUE, data |-> bill])
       ELSE /\ billResps' = Append(billResps, [ok |-> FALSE])
            /\ UNCHANGED <<bills, bill_counter>>
    /\ UNCHANGED <<otherThanDashboard, menu_items, today, dashVars, fetchMenuCall>>

\* The menu grid offers filteredItems once loading is over; the order panel
\* (quantity buttons, percent fields, Clear Order) is rendered while the order
\* has lines.  generateBill checks for the empty order itself and is taken as
\* callable in every state.
MenuGridShown == ~loading
OrderPanelShown == Len(orderItems) /= 0

\* the quantity of the line of item id, 0 when the order has none
QuantityOf(id) ==
    IF HasLine(orderItems, id)
    THEN (CHOOSE o \in Range(orderItems) : o.menu_item_id = id).quantity
    ELSE 0

OrderEdit ==
    \/ \E item \in Range(filteredItems) :
          MenuGridShown /\ QuantityOf(item.id) < MaxQty /\ AddToOrder(item)
    \/ \E i \in DOMAIN orderItems, delta \in {1, -1} :
          /\ orderItems[i].quantity + delta <= MaxQty
          /\ UpdateQuantity(orderItems[i].menu_item_id, delta)
    \/ \E i \in DOMAIN orderItems : RemoveFromOrder(orderItems[i].menu_item_id)
    \/ OrderPanelShown /\ ClearOrder

PercentEdit(discountInputs, taxInputs) ==
    \/ \E value \in discountInputs : OrderPanelShown /\ SetDiscountPercent(value)
    \/ \E value \in taxInputs : OrderPanelShown /\ SetTaxPercent(value)

CustomerEdit ==
    \/ \E value \in TextInputs : OrderPanelShown /\ SetCustomerName(value)
    \/ \E value \in TextInputs : OrderPanelShown /\ SetTableNumber(value)
    \/ \E value \in TextInputs : OrderPanelShown /\ SetNif(value)
    \/ \E value \in CurrencyCodes : SetCurrency(value)

MenuLoad ==
    \/ ServerGetMenu
    \/ FetchMenuResolve
    \/ FetchMenuReject

\* room for one more bill in the store and one more request in flight
BillCapacity ==
    /\ Len(bills) + Len(billReqs) < MaxBills
    /\ Len(billReqs) + Len(billResps) < MaxBills

Billing ==
    \/ BillCapacity /\ GenerateBill
    \/ \E i \in DOMAIN billReqs : ServerPostBills(i)
    \/ \E i \in DOMAIN billReqs : BillRequestFails(i)
    \/ \E j \in DOMAIN billResps : GenerateBillResolve(j)
    \/ \E j \in DOMAIN billResps : GenerateBillReject(j)

Next ==
    \/ MenuLoad
    \/ OrderEdit
    \/ PercentEdit(PercentInputs, PercentInputs)
    \/ CustomerEdit

Spec == Init /\ [][Next]_vars

\* The Dashboard with bill generation, on a one-item menu.
InitBill ==
    /\ InitBackend({1})
    /\ InitDashboard
    /\ InitMenuManagement(<<>>)
    /\ InitBillHistory(<<>>)
    /\ InitSalesReport(<<>>)
    /\ InitInventory(<<>>)
    /\ InitSettings(<<>>)
    /\ InitSession(Null)

NextBill ==
    \/ MenuLoad
    \/ OrderEdit
    \/ PercentEdit(BillDiscountInputs, BillTaxInputs)
    \/ Billing

SpecBill == InitBill /\ [][NextBill]_vars

\* ------------------------------------------------------- MenuManagement
\* Only the editing of existing items is modelled: handleEdit, the price field
\* and the availability switch of the form, handleSubmit with an editingId,
\* toggleAvailability and fetchMenu.
MMIssue(call) == Append(mm_calls, call)
FetchMenuRequest == [op |-> "fetchMenu", state |-> "request"]

\* backend: PUT /menu/{id} overwrites the fields the body carries
UpdateMenuItem(m, call) ==
    IF call.op = "toggle"
    THEN [m EXCEPT ![call.id].available = call.available]
    ELSE [m EXCEPT ![call.id] = [price |-> call.price, available |-> call.available]]

MMServerPut(k) ==
    /\ mm_calls[k].op \in {"toggle", "submit"}
    /\ mm_calls[k].state = "request"
    /\ menu_items' = UpdateMenuItem(menu_items, mm_calls[k])
    /\ mm_calls' = [mm_calls EXCEPT ![k].state = "resolved"]
    /\ toast' = NoToast
    /\ UNCHANGED <<bills, bill_counter, today, otherThanMenu, mm_menuItems, mm_loading,
                   mm_formData, mm_editingId, mm_isDialogOpen>>

MMServerGetMenu(k) ==
    /\ mm_calls[k].op = "fetchMenu"
    /\ mm_calls[k].state = "request"
    /\ mm_calls' = [mm_calls EXCEPT ![k] = [op |-> "fetchMenu", state |-> "resolved",
                                            data |-> MenuResponse(menu_items)]]
    /\ toast' = NoToast
    /\ UNCHANGED <<serverVars, otherThanMenu, mm_menuItems, mm_loading,
                   mm_formData, mm_editingId, mm_isDialogOpen>>

\* axios rejects the request
MMRequestFails(k) ==
    /\ mm_calls[k].state = "request"
    /\ mm_calls' = [mm_calls EXCEPT ![k].state = "rejected"]
    /\ toast' = NoToast
    /\ UNCHANGED <<serverVars, otherThanMenu, mm_menuItems, mm_loading,
                   mm_formData, mm_editingId, mm_isDialogOpen>>

\* fetchMenu after the await: setMenuItems(res.data), or the catch; finally
MMFetchMenuSettle(k) ==
    /\ mm_calls[k].op = "fetchMenu"
    /\ mm_calls[k].state /= "request"
    /\ IF mm_calls[k].state = "resolved"
       THEN mm_menuItems' = mm_calls[k].data /\ toast' = NoToast
       ELSE mm_menuItems' = mm_menuItems /\ toast' = "Failed to load menu"
    /\ mm_loading' = FALSE
    /\ mm_calls' = RemoveAt(mm_calls, k)
    /\ UNCHANGED <<serverVars, otherThanMenu, mm_formData, mm_editingId,
                   mm_isDialogOpen>>

\* toggleAvailability up to the await
ToggleAvailability(item) ==
    /\ mm_calls' = MMIssue([op |-> "toggle", state |-> "request", id |-> item.id,
                            available |-> ~item.available])
    /\ toast' = NoToast
    /\ UNCHANGED <<serverVars, otherThanMenu, mm_menuItems, mm_loading,
                   mm_formData, mm_editingId, mm_isDialogOpen>>

\* toggleAvailability after the await: fetchMenu() and the toast, or the catch
ToggleAvailabilitySettle(k) ==
    /\ mm_calls[k].op = "toggle"
    /\ mm_calls[k].state /= "request"
    /\ IF mm_calls[k].state = "resolved"
       THEN /\ mm_calls' = Append(RemoveAt(mm_calls, k), FetchMenuRequest)
            /\ toast' = "Availability updated"
       ELSE /\ mm_calls' = RemoveAt(mm_calls, k)
            /\ toast' = "Failed to update availability"
    /\ UNCHANGED <<serverVars, otherThanMenu, mm_menuItems, mm_loading,
                   mm_formData, mm_editingId, mm_isDialogOpen>>

HandleEdit(item) ==
    /\ mm_formData' = [price |-> item.price, available |-> item.available]
    /\ mm_editingId' = item.id
    /\ mm_isDialogOpen' = TRUE
    /\ toast' = NoToast
    /\ UNCHANGED <<serverVars, otherThanMenu, mm_menuItems, mm_loading, mm_calls>>

\* the price field and the availability switch of the form
SetFormPrice(value) ==
    /\ mm_formData' = [mm_formData EXCEPT !.price = value]
    /\ toast' = NoToast
    /\ UNCHANGED <<serverVars, otherThanMenu, mm_menuItems, mm_loading,
                   mm_editingId, mm_isDialogOpen, mm_calls>>

SetFormAvailable(checked) ==
    /\ mm_formData' = [mm_formData EXCEPT !.available = checked]
    /\ toast' = NoToast
    /\ UNCHANGED <<serverVars, otherThanMenu, mm_menuItems, mm_loading,
                   mm_editingId, mm_isDialogOpen, mm_calls>>

\* Cancel, or the dialog dismissed: onOpenChange(false)
CloseDialog ==
    /\ mm_isDialogOpen' = FALSE
    /\ toast' = NoToast
    /\ UNCHANGED <<serverVars, otherThanMenu, mm_menuItems, mm_loading,
                   mm_formData, mm_editingId, mm_calls>>

\* handleSubmit up to the await, for an item being edited
HandleSubmit ==
    /\ mm_editingId /= NoId
    /\ IF mm_formData.price = EmptyPrice
       THEN /\ toast' = "Name and price are required"
            /\ UNCHANGED mm_calls
       ELSE /\ Len(mm_calls) < MaxCalls
            /\ mm_calls' = MMIssue([op |-> "submit", state |-> "request",
                                    id |-> mm_editingId, price |-> mm_formData.price,
                                    available |-> mm_formData.available])
            /\ toast' = NoToast
    /\ UNCHANGED <<serverVars, otherThanMenu, mm_menuItems, mm_loading,
                   mm_formData, mm_editingId, mm_isDialogOpen>>

\* handleSubmit after the await
HandleSubmitSettle(k) ==
    /\ mm_calls[k].op = "submit"
    /\ mm_calls[k].state /= "request"
    /\ IF mm_calls[k].state = "resolved"
       THEN /\ mm_formData' = emptyItem
            /\ mm_editingId' = NoId
            /\ mm_isDialogOpen' = FALSE
            /\ mm_calls' = Append(RemoveAt(mm_calls, k), FetchMenuRequest)
            /\ toast' = "Item updated"
       ELSE /\ mm_calls' = RemoveAt(mm_calls, k)
            /\ toast' = "Failed to save item"
            /\ UNCHANGED <<mm_formData, mm_editingId, mm_isDialogOpen>>
    /\ UNCHANGED <<serverVars, otherThanMenu, mm_menuItems, mm_loading>>

\* The manager opens, fills and closes the edit dialog while no request of the
\* page is in flight; toggles and submits may overlap.
MenuManagement ==
    \/ \E k \in DOMAIN mm_calls : MMServerPut(k)
    \/ \E k \in DOMAIN mm_calls : MMServerGetMenu(k)
    \/ \E k \in DOMAIN mm_calls : MMRequestFails(k)
    \/ \E k \in DOMAIN mm_calls : MMFetchMenuSettle(k)
    \/ \E item \in Range(mm_menuItems) :
          ~mm_loading /\ Len(mm_calls) < MaxCalls /\ ToggleAvailability(item)
    \/ \E k \in DOMAIN mm_calls : ToggleAvailabilitySettle(k)
    \/ \E item \in Range(mm_menuItems) : ~mm_loading /\ Len(mm_calls) = 0 /\ HandleEdit(item)
    \/ \E value \in PriceInputs : mm_isDialogOpen /\ Len(mm_calls) = 0 /\ SetFormPrice(value)
    \/ \E checked \in BOOLEAN : mm_isDialogOpen /\ Len(mm_calls) = 0 /\ SetFormAvailable(checked)
    \/ mm_isDialogOpen /\ Len(mm_calls) = 0 /\ CloseDialog
    \/ mm_isDialogOpen /\ HandleSubmit
    \/ \E k \in DOMAIN mm_calls : HandleSubmitSettle(k)

\* A Dashboard on one terminal and MenuManagement on another, on a one-item menu.
InitMenu ==
    /\ InitBackend({1})
    /\ InitDashboard
    /\ InitMenuManagement(<<FetchMenuRequest>>)
    /\ InitBillHistory(<<>>)
    /\ InitSalesReport(<<>>)
    /\ InitInventory(<<>>)
    /\ InitSettings(<<>>)
    /\ InitSession(Null)

NextMenu ==
    \/ MenuLoad
    \/ OrderEdit
    \/ MenuManagement

SpecMenu == InitMenu /\ [][NextMenu]_vars

\* ---------------------------------------------------------- BillHistory
\* the query string fetchBills builds from the filter fields
FetchBillsParams ==
    [start_date |-> bh_startDate, end_date |-> bh_endDate, search |-> bh_searchTerm]
NoFilters == [start_date |-> NoDate, end_date |-> NoDate, search |-> ""]
FetchBillsRequest(params) == [op |-> "fetchBills", state |-> "request", params |-> params]

\* backend: GET /bills keeps the stored bills the filters admit; an empty
\* parameter is not sent and filters nothing
MatchesFilters(bill, params) ==
    /\ params.start_date = NoDate \/ params.start_date <= bill.created_at
    /\ params.end_date = NoDate \/ bill.created_at <= params.end_date
    /\ \/ params.search = ""
       \/ params.search \in {bill.customer_name, bill.nif, bill.table_number}

FilterBills(store, params) == SelectSeq(store, LAMBDA bill : MatchesFilters(bill, params))

BHServerGetBills(k) ==
    /\ bh_calls[k].state = "request"
    /\ bh_calls' = [bh_calls EXCEPT ![k] =
                       [op |-> bh_calls[k].op, state |-> "resolved",
                        data |-> FilterBills(bills, bh_calls[k].params)]]
    /\ toast' = NoToast
    /\ UNCHANGED <<serverVars, otherThanHistory, bh_bills, bh_loading, bh_searchTerm,
                   bh_startDate, bh_endDate, bh_timers>>

\* axios rejects the request
BHRequestFails(k) ==
    /\ bh_calls[k].state = "request"
    /\ bh_calls' = [bh_calls EXCEPT ![k] = [op |-> bh_calls[k].op, state |-> "rejected"]]
    /\ toast' = NoToast
    /\ UNCHANGED <<serverVars, otherThanHistory, bh_bills, bh_loading, bh_searchTerm,
                   bh_startDate, bh_endDate, bh_timers>>

\* fetchBills after the await: setBills(res.data), or the catch; finally
FetchBillsSettle(k) ==
    /\ bh_calls[k].op = "fetchBills"
    /\ bh_calls[k].state /= "request"
    /\ IF bh_calls[k].state = "resolved"
       THEN bh_bills' = bh_calls[k].data /\ toast' = NoToast
       ELSE bh_bills' = bh_bills /\ toast' = "Failed to load bills"
    /\ bh_loading' = FALSE
    /\ bh_calls' = RemoveAt(bh_calls, k)
    /\ UNCHANGED <<serverVars, otherThanHistory, bh_searchTerm, bh_startDate, bh_endDate,
                   bh_timers>>

\* handleSearch: setLoading(true), then fetchBills up to the await
HandleSearch ==
    /\ bh_loading' = TRUE
    /\ bh_calls' = Append(bh_calls, FetchBillsRequest(FetchBillsParams))
    /\ toast' = NoToast
    /\ UNCHANGED <<serverVars, otherThanHistory, bh_bills, bh_searchTerm, bh_startDate,
                   bh_endDate, bh_timers>>

\* clearFilters: the filters are reset and a timer is armed
ClearFilters ==
    /\ bh_searchTerm' = ""
    /\ bh_startDate' = NoDate
    /\ bh_endDate' = NoDate
    /\ bh_loading' = TRUE
    /\ bh_timers' = bh_timers + 1
    /\ toast' = NoToast
    /\ UNCHANGED <<serverVars, otherThanHistory, bh_bills, bh_calls>>

\* the timer of clearFilters fires: axios.get(`${API}/bills`)
ClearFiltersTimeout ==
    /\ bh_timers > 0
    /\ bh_timers' = bh_timers - 1
    /\ bh_calls' = Append(bh_calls, [op |-> "clearFilters", state |-> "request",
                                     params |-> NoFilters])
    /\ toast' = NoToast
    /\ UNCHANGED <<serverVars, otherThanHistory, bh_bills, bh_loading, bh_searchTerm,
                   bh_startDate, bh_endDate>>

\* the .then of clearFilters; a rejected request has no handler and only ends
ClearFiltersThen(k) ==
    /\ bh_calls[k].op = "clearFilters"
    /\ bh_calls[k].state /= "request"
    /\ IF bh_calls[k].state = "resolved"
       THEN bh_bills' = bh_calls[k].data /\ bh_loading' = FALSE
       ELSE UNCHANGED <<bh_bills, bh_loading>>
    /\ bh_calls' = RemoveAt(bh_calls, k)
    /\ toast' = NoToast
    /\ UNCHANGED <<serverVars, otherThanHistory, bh_searchTerm, bh_startDate, bh_endDate,
                   bh_timers>>

\* the search field and the two date fields
SetSearchTerm(value) ==
    /\ bh_searchTerm' = value
    /\ toast' = NoToast
    /\ UNCHANGED <<serverVars, otherThanHistory, bh_bills, bh_loading, bh_startDate,
                   bh_endDate, bh_calls, bh_timers>>

SetStartDate(value) ==
    /\ bh_startDate' = value
    /\ toast' = NoToast
    /\ UNCHANGED <<serverVars, otherThanHistory, bh_bills, bh_loading, bh_searchTerm,
                   bh_endDate, bh_calls, bh_timers>>

SetEndDate(value) ==
    /\ bh_endDate' = value
    /\ toast' = NoToast
    /\ UNCHANGED <<serverVars, otherThanHistory, bh_bills, bh_loading, bh_searchTerm,
                   bh_startDate, bh_calls, bh_timers>>

\* ---------------------------------------------------------- SalesReport
RECURSIVE SumOver(_, _, _)
SumOver(s, field, i) ==
    IF i > Len(s) THEN 0 ELSE s[i][field] + SumOver(s, field, i + 1)

\* the order lines of a list of bills
RECURSIVE LinesOf(_)
LinesOf(billList) ==
    IF billList = <<>> THEN <<>> ELSE Head(billList).items \o LinesOf(Tail(billList))

\* the Report Aggregator's ranking: the items sold, with quantity and revenue
\* (unit price x quantity) summed per item, most sold first, ties by item
RECURSIVE Ranked(_, _)
Ranked(lines, ids) ==
    IF ids = {} THEN <<>>
    ELSE LET qty(id) == SumOver(SelectSeq(lines, LAMBDA l : l.menu_item_id = id),
                                "quantity", 1)
             top == CHOOSE x \in ids :
                        \A y \in ids : qty(x) > qty(y) \/ (qty(x) = qty(y) /\ x <= y)
             mine == SelectSeq(lines, LAMBDA l : l.menu_item_id = top)
         IN <<[menu_item_id |-> top, quantity |-> qty(top),
               revenue |-> Scale * ReduceSum(mine, 0)]>> \o Ranked(lines, ids \ {top})

TopItems(billList) ==
    LET lines == LinesOf(billList)
    IN Ranked(lines, {lines[i].menu_item_id : i \in DOMAIN lines})

\* the Report Aggregator over a list of bills; the average is cut to a whole
\* numerator, and is 0 over no bills
Aggregate(billList) ==
    [total_bills |-> Len(billList),
     total_revenue |-> SumOver(billList, "total", 1),
     total_items_sold |-> SumOver(LinesOf(billList), "quantity", 1),
     avg_bill_value |-> IF Len(billList) = 0 THEN 0
                        ELSE SumOver(billList, "total", 1) \div Len(billList),
     top_items |-> TopItems(billList)]

\* backend: GET /reports/daily aggregates the stored bills of one day
DailyReport(store, date) ==
    LET ofDay == SelectSeq(store, LAMBDA bill : bill.created_at = date)
        stats == Aggregate(ofDay)
    IN [date |-> date, total_bills |-> stats.total_bills,
        total_revenue |-> stats.total_revenue,
        total_items_sold |-> stats.total_items_sold,
        avg_bill_value |-> stats.avg_bill_value, top_items |-> stats.top_items]

SRServerGetDaily(k) ==
    /\ sr_calls[k].op = "daily"
    /\ sr_calls[k].state = "request"
    /\ sr_calls' = [sr_calls EXCEPT ![k] =
                       [op |-> "daily", state |-> "resolved",
                        data |-> DailyReport(bills, sr_calls[k].date)]]
    /\ toast' = NoToast
    /\ UNCHANGED <<serverVars, otherThanReport, sr_dailyReport, sr_selectedDate,
                   sr_loading, srRange>>

\* axios rejects the request
SRRequestFails(k) ==
    /\ sr_calls[k].state = "request"
    /\ sr_calls' = [sr_calls EXCEPT ![k].state = "rejected"]
    /\ toast' = NoToast
    /\ UNCHANGED <<serverVars, otherThanReport, sr_dailyReport, sr_selectedDate,
                   sr_loading, srRange>>

DailyReportRequest(date) == [op |-> "daily", state |-> "request", date |-> date]

\* handleDateChange: setSelectedDate(date), then fetchDailyReport up to the await
HandleDateChange(date) ==
    /\ sr_selectedDate' = date
    /\ sr_loading' = TRUE
    /\ sr_calls' = Append(sr_calls, DailyReportRequest(date))
    /\ toast' = NoToast
    /\ UNCHANGED <<serverVars, otherThanReport, sr_dailyReport, srRange>>

\* fetchDailyReport after the await: setDailyReport(res.data), or the catch; finally
FetchDailyReportSettle(k) ==
    /\ sr_calls[k].op = "daily"
    /\ sr_calls[k].state /= "request"
    /\ IF sr_calls[k].state = "resolved"
       THEN sr_dailyReport' = sr_calls[k].data /\ toast' = NoToast
       ELSE sr_dailyReport' = sr_dailyReport /\ toast' = "Failed to load daily report"
    /\ sr_loading' = FALSE
    /\ sr_calls' = RemoveAt(sr_calls, k)
    /\ UNCHANGED <<serverVars, otherThanReport, sr_selectedDate, srRange>>

\* ---------------------------------------------- SalesReport: the range tab
RangeReportRequest(start, end) ==
    [op |-> "range", state |-> "request", start_date |-> start, end_date |-> end]

\* mutant: the bounds are taken as they come
ValidRangeUnchecked(start, end) == TRUE
\* backend: the bounds of a window are well-formed when the end is not before
\* the start
ValidRange(start, end) == start <= end

\* the bills created on a day
BillsOfDay(store, date) == SelectSeq(store, LAMBDA bill : bill.created_at = date)

\* mutant: the days without bills are left out
DailyBreakdownActiveDays(store, start, end) ==
    SelectSeq([i \in 1..(end - start + 1) |->
                  [date |-> start + i - 1,
                   bill_count |-> Len(BillsOfDay(store, start + i - 1)),
                   revenue |-> SumOver(BillsOfDay(store, start + i - 1), "total", 1)]],
              LAMBDA day : day.bill_count > 0)

\* the Report Aggregator's buckets: one entry for every day from start to end
DailyBreakdown(store, start, end) ==
    [i \in 1..(end - start + 1) |->
        [date |-> start + i - 1,
         bill_count |-> Len(BillsOfDay(store, start + i - 1)),
         revenue |-> SumOver(BillsOfDay(store, start + i - 1), "total", 1)]]

\* backend: GET /reports/range aggregates the stored bills of the days from
\* start to end
RangeReport(store, start, end) ==
    LET inRange == SelectSeq(store, LAMBDA bill :
                       start <= bill.created_at /\ bill.created_at <= end)
        stats == Aggregate(inRange)
    IN [start_date |-> start, end_date |-> end, total_bills |-> stats.total_bills,
        total_revenue |-> stats.total_revenue,
        total_items_sold |-> stats.total_items_sold,
        avg_bill_value |-> stats.avg_bill_value, top_items |-> stats.top_items,
        daily_breakdown |-> DailyBreakdown(store, start, end)]

\* malformed bounds are answered with an InvalidRange error
SRServerGetRange(k) ==
    /\ sr_calls[k].op = "range"
    /\ sr_calls[k].state = "request"
    /\ sr_calls' = [sr_calls EXCEPT ![k] =
          IF ValidRange(sr_calls[k].start_date, sr_calls[k].end_date)
          THEN [op |-> "range", state |-> "resolved",
                data |-> RangeReport(bills, sr_calls[k].start_date, sr_calls[k].end_date)]
          ELSE [op |-> "range", state |-> "rejected", error |-> "InvalidRange",
                start_date |-> sr_calls[k].start_date,
                end_date |-> sr_calls[k].end_date]]
    /\ toast' = NoToast
    /\ UNCHANGED <<serverVars, otherThanReport, sr_dailyReport, sr_selectedDate,
                   sr_loading, srRange>>

\* the two date fields of the range tab
SRSetStartDate(value) ==
    /\ sr_startDate' = value
    /\ toast' = NoToast
    /\ UNCHANGED <<serverVars, otherThanReport, sr_dailyReport, sr_selectedDate,
                   sr_loading, sr_calls, sr_rangeReport, sr_endDate>>

SRSetEndDate(value) ==
    /\ sr_endDate' = value
    /\ toast' = NoToast
    /\ UNCHANGED <<serverVars, otherThanReport, sr_dailyReport, sr_selectedDate,
                   sr_loading, sr_calls, sr_rangeReport, sr_startDate>>

\* fetchRangeReport up to the await: the guard, setLoading(true), axios.get
fetchRangeReport ==
    IF sr_startDate = NoDate \/ sr_endDate = NoDate
    THEN /\ toast' = "Please select both dates"
         /\ UNCHANGED <<serverVars, otherThanReport, srVars>>
    ELSE /\ sr_loading' = TRUE
         /\ sr_calls' = Append(sr_calls, RangeReportRequest(sr_startDate, sr_endDate))
         /\ toast' = NoToast
         /\ UNCHANGED <<serverVars, otherThanReport, sr_dailyReport, sr_selectedDate,
                        srRange>>

\* fetchRangeReport after the await: setRangeReport(res.data), or the catch; finally
FetchRangeReportSettle(k) ==
    /\ sr_calls[k].op = "range"
    /\ sr_calls[k].state /= "request"
    /\ IF sr_calls[k].state = "resolved"
       THEN sr_rangeReport' = sr_calls[k].data /\ toast' = NoToast
       ELSE sr_rangeReport' = sr_rangeReport /\ toast' = "Failed to load range report"
    /\ sr_loading' = FALSE
    /\ sr_calls' = RemoveAt(sr_calls, k)
    /\ UNCHANGED <<serverVars, otherThanReport, sr_dailyReport, sr_selectedDate,
                   sr_startDate, sr_endDate>>

\* what the two tabs render: the statistics cards in place of the skeleton,
\* and the Export CSV buttons
DailyStatsShown == ~sr_loading /\ sr_dailyReport /= Null
RangeStatsShown == ~sr_loading /\ sr_rangeReport /= Null
\* mutant: the export is offered for every report
ExportDailyShownAlways == sr_dailyReport /= Null
ExportDailyShown ==
    IF sr_dailyReport /= Null THEN sr_dailyReport.total_bills > 0 ELSE FALSE
ExportRangeShown ==
    IF sr_rangeReport /= Null THEN sr_rangeReport.total_bills > 0 ELSE FALSE

\* the reports page with both tabs; a new request starts when the earlier
\* ones have settled
Reports ==
    \/ \E k \in DOMAIN sr_calls : SRServerGetDaily(k)
    \/ \E k \in DOMAIN sr_calls : SRServerGetRange(k)
    \/ \E k \in DOMAIN sr_calls : SRRequestFails(k)
    \/ \E k \in DOMAIN sr_calls : FetchDailyReportSettle(k)
    \/ \E k \in DOMAIN sr_calls : FetchRangeReportSettle(k)
    \/ \E date \in Dates : Len(sr_calls) = 0 /\ HandleDateChange(date)
    \/ \E value \in Dates : Len(sr_calls) = 0 /\ SRSetStartDate(value)
    \/ \E value \in Dates : Len(sr_calls) = 0 /\ SRSetEndDate(value)
    \/ Len(sr_calls) = 0 /\ fetchRangeReport

\* --------------------------------------------------------------- routes
\* The router shows the element of the new path: the page left is unmounted
\* and its state dropped, the page entered is mounted with its useState
\* defaults and runs its mount effect.
Navigate(path) ==
    /\ route' = path
    /\ bh_bills' = <<>>
    /\ bh_searchTerm' = ""
    /\ bh_startDate' = NoDate
    /\ bh_endDate' = NoDate
    /\ bh_timers' = 0
    /\ sr_dailyReport' = Null
    /\ sr_selectedDate' = today
    /\ sr_rangeReport' = Null
    /\ sr_startDate' = NoDate
    /\ sr_endDate' = NoDate
    /\ IF path = "/history"
       THEN /\ bh_loading' = TRUE
            /\ bh_calls' = <<FetchBillsRequest(NoFilters)>>
            /\ sr_loading' = FALSE
            /\ sr_calls' = <<>>
       ELSE /\ bh_loading' = TRUE
            /\ bh_calls' = <<>>
            /\ sr_loading' = TRUE
            /\ sr_calls' = <<DailyReportRequest(today)>>
    /\ toast' = NoToast
    /\ UNCHANGED <<serverVars, dashVars, netVars, mmVars, stockVars, ivVars, stVars,
                   sessionVars, lgVars>>

\* One read of the store at a time: a new search, filter reset, date change
\* or change of page starts when the earlier reads have settled.
ReadsInFlight == Len(bh_calls) + bh_timers + Len(sr_calls)

Routes ==
    \E path \in {"/history", "/reports"} :
        route /= path /\ ReadsInFlight = 0 /\ Navigate(path)

BillHistory ==
    \/ \E k \in DOMAIN bh_calls : BHServerGetBills(k)
    \/ \E k \in DOMAIN bh_calls : BHRequestFails(k)
    \/ \E k \in DOMAIN bh_calls : FetchBillsSettle(k)
    \/ \E k \in DOMAIN bh_calls : ClearFiltersThen(k)
    \/ ClearFiltersTimeout
    \/ route = "/history" /\ ReadsInFlight = 0 /\ HandleSearch
    \/ route = "/history" /\ ReadsInFlight = 0 /\ ClearFilters

SalesReport ==
    \/ \E k \in DOMAIN sr_calls : SRServerGetDaily(k)
    \/ \E k \in DOMAIN sr_calls : SRRequestFails(k)
    \/ \E k \in DOMAIN sr_calls : FetchDailyReportSettle(k)
    \/ \E date \in Dates : route = "/reports" /\ ReadsInFlight = 0 /\ HandleDateChange(date)

\* the order entry of a terminal that only sells: items are added and the
\* order is cleared, while no bill of the terminal is being generated
BillsInFlight == Len(billReqs) + Len(billResps)

OrderEntry ==
    \/ \E item \in Range(filteredItems) :
          /\ MenuGridShown /\ BillsInFlight = 0
          /\ QuantityOf(item.id) < MaxQty /\ AddToOrder(item)
    \/ OrderPanelShown /\ BillsInFlight = 0 /\ ClearOrder

\* A Dashboard that generates bills and a second terminal that reads the
\* store through BillHistory and SalesReport, on a one-item menu.
InitStore ==
    /\ InitBackend({1})
    /\ InitDashboard
    /\ InitMenuManagement(<<>>)
    /\ InitBillHistory(<<FetchBillsRequest(NoFilters)>>)
    /\ InitSalesReport(<<>>)
    /\ InitInventory(<<>>)
    /\ InitSettings(<<>>)
    /\ InitSession(Null)

NextStore ==
    \/ MenuLoad
    \/ OrderEntry
    \/ Billing
    \/ Routes
    \/ BillHistory
    \/ SalesReport

SpecStore == InitStore /\ [][NextStore]_vars

\* The same two terminals with a browser and a backend that keep running: a
\* request in flight is eventually answered or fails, a timer eventually
\* fires and a settled promise eventually runs its callbacks. Nothing is
\* assumed of the user.
FairStore ==
    /\ SpecStore
    /\ WF_vars(\E k \in DOMAIN bh_calls : BHServerGetBills(k))
    /\ WF_vars(\E k \in DOMAIN bh_calls : FetchBillsSettle(k))
    /\ WF_vars(\E k \in DOMAIN bh_calls : ClearFiltersThen(k))
    /\ WF_vars(ClearFiltersTimeout)
    /\ WF_vars(\E k \in DOMAIN sr_calls : SRServerGetDaily(k))
    /\ WF_vars(\E k \in DOMAIN sr_calls : FetchDailyReportSettle(k))

\* A Dashboard that generates bills and a second terminal on the reports page,
\* on a one-item menu.
InitReport ==
    /\ InitBackend({1})
    /\ InitDashboard
    /\ InitMenuManagement(<<>>)
    /\ InitBillHistory(<<>>)
    /\ InitSalesReport(<<DailyReportRequest(1)>>)
    /\ InitInventory(<<>>)
    /\ InitSettings(<<>>)
    /\ InitSession(Null)

\* the sales of a terminal that bills one item at a time and whose requests
\* all succeed
Sales ==
    \/ ServerGetMenu
    \/ FetchMenuResolve
    \/ \E item \in Range(filteredItems) :
          MenuGridShown /\ QuantityOf(item.id) = 0 /\ AddToOrder(item)
    \/ OrderPanelShown /\ BillCapacity /\ GenerateBill
    \/ \E i \in DOMAIN billReqs : ServerPostBills(i)
    \/ \E j \in DOMAIN billResps : GenerateBillResolve(j)

NextReport ==
    \/ Sales
    \/ Reports

SpecReport == InitReport /\ [][NextReport]_vars

\* ---------------------------------------------- Dashboard: the order panel
\* The Dashboard alone, on a one-item menu, from mount to its first bill: the
\* categories load, the cashier picks a category, enters the order with its
\* percents and customer fields, generates the bill and clears the order.
CategoryLoad ==
    \/ ServerGetCategories
    \/ FetchCategoriesResolve
    \/ FetchCategoriesReject

CategorySelect ==
    \E cat \in Range(categories) : selectedCategory /= cat /\ SetSelectedCategory(cat)

FirstBill ==
    \/ OrderPanelShown /\ Len(bills) + BillsInFlight = 0 /\ GenerateBill
    \/ \E i \in DOMAIN billReqs : ServerPostBills(i)
    \/ \E j \in DOMAIN billResps : GenerateBillResolve(j)

InitOrder ==
    /\ InitBackend({1})
    /\ InitDashboard
    /\ InitMenuManagement(<<>>)
    /\ InitBillHistory(<<>>)
    /\ InitSalesReport(<<>>)
    /\ InitInventory(<<>>)
    /\ InitSettings(<<>>)
    /\ InitSession(Null)

NextOrder ==
    \/ MenuLoad
    \/ CategoryLoad
    \/ CategorySelect
    \/ OrderEntry
    \/ PercentEdit({10}, BillTaxInputs)
    \/ CustomerEdit
    \/ FirstBill

SpecOrder == InitOrder /\ [][NextOrder]_vars

\* ------------------------------------------- BillHistory: overlapping reads
\* The BillHistory page alone over a store of two bills: the user sets the
\* filter fields while no read is in flight and clicks Search and Clear
\* without waiting for the earlier reads; every read is answered.
SampleBillRequest(name) ==
    [items |-> <<[menu_item_id |-> 1, price |-> 300, quantity |-> 1]>>,
     discount_percent |-> 0, tax_percent |-> 23, customer_name |-> name,
     table_number |-> "", nif |-> "", currency |-> "EUR"]

\* the backend on day 2, with one bill of day 1 and one of day 2 in the store
InitBackendTwoBills ==
    /\ menu_items = [i \in {1} |-> [price |-> 300, available |-> TRUE]]
    /\ bills = <<CreateBill(SampleBillRequest(""), 1, 1),
                 CreateBill(SampleBillRequest("x"), 2, 2)>>
    /\ bill_counter = 2
    /\ today = 2

InitHistory ==
    /\ InitBackendTwoBills
    /\ InitDashboard
    /\ InitMenuManagement(<<>>)
    /\ InitBillHistory(<<FetchBillsRequest(NoFilters)>>)
    /\ InitSalesReport(<<>>)
    /\ InitInventory(<<>>)
    /\ InitSettings(<<>>)
    /\ InitSession(Null)

BHReads == Len(bh_calls) + bh_timers

NextHistory ==
    \/ \E k \in DOMAIN bh_calls : BHServerGetBills(k)
    \/ \E k \in DOMAIN bh_calls : FetchBillsSettle(k)
    \/ \E k \in DOMAIN bh_calls : ClearFiltersThen(k)
    \/ ClearFiltersTimeout
    \/ \E value \in TextInputs : BHReads = 0 /\ SetSearchTerm(value)
    \/ \E value \in Dates : BHReads = 0 /\ SetStartDate(value)
    \/ \E value \in Dates : BHReads = 0 /\ SetEndDate(value)
    \/ BHReads < MaxReads /\ HandleSearch
    \/ BHReads < MaxReads /\ ClearFilters

SpecHistory == InitHistory /\ [][NextHistory]_vars

\* ------------------------------------------- SalesReport: overlapping reads
\* The reports page alone over the same store: the user changes the date and
\* asks for range reports without waiting for the earlier reads; every read
\* is answered.
InitReads ==
    /\ InitBackendTwoBills
    /\ InitDashboard
    /\ InitMenuManagement(<<>>)
    /\ InitBillHistory(<<>>)
    /\ InitSalesReport(<<DailyReportRequest(2)>>)
    /\ InitInventory(<<>>)
    /\ InitSettings(<<>>)
    /\ InitSession(Null)

NextReads ==
    \/ \E k \in DOMAIN sr_calls : SRServerGetDaily(k)
    \/ \E k \in DOMAIN sr_calls : SRServerGetRange(k)
    \/ \E k \in DOMAIN sr_calls : FetchDailyReportSettle(k)
    \/ \E k \in DOMAIN sr_calls : FetchRangeReportSettle(k)
    \/ \E date \in Dates : Len(sr_calls) < MaxReads /\ HandleDateChange(date)
    \/ \E value \in Dates : Len(sr_calls) = 0 /\ SRSetStartDate(value)
    \/ \E value \in Dates : Len(sr_calls) = 0 /\ SRSetEndDate(value)
    \/ Len(sr_calls) < MaxReads /\ fetchRangeReport

SpecReads == InitReads /\ [][NextReads]_vars

\* ------------------------------------------------------------ Inventory
\* Stock adjustment of the Inventory page: openAdjustDialog, the type select
\* and the quantity field (type number, min 0, parseInt) of the dialog,
\* handleAdjustStock and fetchData (its inventory and stock-transactions reads).
emptyAdjustForm == [inventory_id |-> NoId, quantity |-> 0, transaction_type |-> "restock"]
FetchDataRequest ==
    [op |-> "fetchData", state |-> "request", pending |-> {"inventory", "transactions"},
     inventory |-> <<>>, transactions |-> <<>>]

\* mutant: waste is subtracted without the floor at 0
NewStockUnclamped(p, type, q) ==
    CASE type = "restock" -> p + q
      [] type = "waste" -> p - q
      [] type = "adjustment" -> q

\* backend: the stock an adjustment of type and quantity q leaves of stock p
NewStock(p, type, q) ==
    CASE type = "restock" -> p + q
      [] type = "waste" -> Max(0, p - q)
      [] type = "adjustment" -> q

\* mutant: the record is updated and the ledger is left alone
AppendTransactionSkipped(ledger, tx) == ledger
\* the ledger's write
AppendTransaction(ledger, tx) == Append(ledger, tx)

\* backend: POST /inventory/{id}/adjust, the read-modify-write of the record
\* and the append of its StockTransaction in one step
ServerAdjustStock(k) ==
    /\ iv_calls[k].op = "adjust"
    /\ iv_calls[k].state = "request"
    /\ IF iv_calls[k].inventory_id \in DOMAIN inventory_records
       THEN LET id == iv_calls[k].inventory_id
                p == inventory_records[id].current_stock
                n == NewStock(p, iv_calls[k].transaction_type, iv_calls[k].quantity)
            IN /\ inventory_records' = [inventory_records EXCEPT ![id].current_stock = n]
               /\ stock_transactions' =
                     AppendTransaction(stock_transactions,
                         [inventory_id |-> id,
                          transaction_type |-> iv_calls[k].transaction_type,
                          quantity |-> iv_calls[k].quantity,
                          previous_stock |-> p, new_stock |-> n])
               /\ iv_calls' = [iv_calls EXCEPT ![k].state = "resolved"]
       ELSE /\ iv_calls' = [iv_calls EXCEPT ![k].state = "rejected"]
            /\ UNCHANGED <<inventory_records, stock_transactions>>
    /\ toast' = NoToast
    /\ UNCHANGED <<serverVars, otherThanInventory, location, ivPage>>

\* GET /inventory: every record, as a list
InventoryResponse(records) ==
    LET ids == SortedIds(DOMAIN records)
    IN [i \in DOMAIN ids |-> [id |-> ids[i], current_stock |-> records[ids[i]].current_stock]]

\* backend: GET /inventory, one of the reads of fetchData's Promise.all
IVServerGetInventory(k) ==
    /\ iv_calls[k].op = "fetchData"
    /\ iv_calls[k].state = "request"
    /\ "inventory" \in iv_calls[k].pending
    /\ iv_calls' = [iv_calls EXCEPT ![k].inventory = InventoryResponse(inventory_records),
                                    ![k].pending = @ \ {"inventory"}]
    /\ toast' = NoToast
    /\ UNCHANGED <<serverVars, stockVars, otherThanInventory, location, ivPage>>

\* backend: GET /stock-transactions, another read of the same Promise.all
IVServerGetTransactions(k) ==
    /\ iv_calls[k].op = "fetchData"
    /\ iv_calls[k].state = "request"
    /\ "transactions" \in iv_calls[k].pending
    /\ iv_calls' = [iv_calls EXCEPT ![k].transactions = stock_transactions,
                                    ![k].pending = @ \ {"transactions"}]
    /\ toast' = NoToast
    /\ UNCHANGED <<serverVars, stockVars, otherThanInventory, location, ivPage>>

\* the call as the rejected promise sees it: err.response.status
Rejected(call, status) ==
    [f \in DOMAIN call \cup {"status"} |->
        IF f = "status" THEN status ELSE IF f = "state" THEN "rejected" ELSE call[f]]

\* axios rejects the request, or one of the requests of Promise.all
IVRequestFails(k) ==
    /\ iv_calls[k].state = "request"
    /\ iv_calls[k].op = "fetchData" => iv_calls[k].pending /= {}
    /\ iv_calls' = [iv_calls EXCEPT ![k] = Rejected(iv_calls[k], 500)]
    /\ toast' = NoToast
    /\ UNCHANGED <<serverVars, stockVars, otherThanInventory, location, ivPage>>

\* the backend refuses the request: 401 Unauthorized
IVRequestUnauthorized(k) ==
    /\ iv_calls[k].state = "request"
    /\ iv_calls[k].op = "fetchData" => iv_calls[k].pending /= {}
    /\ iv_calls' = [iv_calls EXCEPT ![k] = Rejected(iv_calls[k], 401)]
    /\ toast' = NoToast
    /\ UNCHANGED <<serverVars, stockVars, otherThanInventory, location, ivPage>>

\* fetchData after the await of Promise.all: the setters, or the catch; finally
FetchDataSettle(k) ==
    /\ iv_calls[k].op = "fetchData"
    /\ \/ iv_calls[k].state = "rejected"
       \/ iv_calls[k].pending = {}
    /\ IF iv_calls[k].state = "rejected"
       THEN /\ IF iv_calls[k].status = 401
               THEN location' = "/login" /\ toast' = NoToast
               ELSE location' = location /\ toast' = "Failed to load data"
            /\ UNCHANGED <<iv_inventory, iv_transactions>>
       ELSE /\ iv_inventory' = iv_calls[k].inventory
            /\ iv_transactions' = iv_calls[k].transactions
            /\ location' = location
            /\ toast' = NoToast
    /\ iv_loading' = FALSE
    /\ iv_calls' = RemoveAt(iv_calls, k)
    /\ UNCHANGED <<serverVars, stockVars, otherThanInventory, adjustForm,
                   isAdjustDialogOpen>>

openAdjustDialog(inv) ==
    /\ adjustForm' = [adjustForm EXCEPT !.inventory_id = inv.id]
    /\ isAdjustDialogOpen' = TRUE
    /\ toast' = NoToast
    /\ UNCHANGED <<serverVars, stockVars, otherThanInventory, location, iv_inventory,
                   iv_transactions, iv_loading, iv_calls>>

\* the dialog is dismissed (onOpenChange): the form keeps what it holds
DismissAdjustDialog ==
    /\ isAdjustDialogOpen' = FALSE
    /\ toast' = NoToast
    /\ UNCHANGED <<serverVars, stockVars, otherThanInventory, location, iv_inventory,
                   iv_transactions, iv_loading, iv_calls, adjustForm>>

\* the type select and the quantity field of the dialog
SetAdjustType(v) ==
    /\ adjustForm' = [adjustForm EXCEPT !.transaction_type = v]
    /\ toast' = NoToast
    /\ UNCHANGED <<serverVars, stockVars, otherThanInventory, location, iv_inventory,
                   iv_transactions, iv_loading, iv_calls, isAdjustDialogOpen>>

SetAdjustQuantity(value) ==
    /\ adjustForm' = [adjustForm EXCEPT !.quantity = value]
    /\ toast' = NoToast
    /\ UNCHANGED <<serverVars, stockVars, otherThanInventory, location, iv_inventory,
                   iv_transactions, iv_loading, iv_calls, isAdjustDialogOpen>>

\* handleAdjustStock up to the await
handleAdjustStock ==
    /\ iv_calls' = Append(iv_calls,
                      [op |-> "adjust", state |-> "request",
                       inventory_id |-> adjustForm.inventory_id,
                       quantity |-> adjustForm.quantity,
                       transaction_type |-> adjustForm.transaction_type])
    /\ toast' = NoToast
    /\ UNCHANGED <<serverVars, stockVars, otherThanInventory, location, iv_inventory,
                   iv_transactions, iv_loading, adjustForm, isAdjustDialogOpen>>

\* handleAdjustStock after the await: the dialog closes, the form is reset and
\* fetchData is called; or the catch
HandleAdjustStockSettle(k) ==
    /\ iv_calls[k].op = "adjust"
    /\ iv_calls[k].state /= "request"
    /\ IF iv_calls[k].state = "resolved"
       THEN /\ toast' = "Stock adjusted"
            /\ isAdjustDialogOpen' = FALSE
            /\ adjustForm' = emptyAdjustForm
            /\ iv_calls' = Append(RemoveAt(iv_calls, k), FetchDataRequest)
       ELSE /\ toast' = "Failed to adjust stock"
            /\ iv_calls' = RemoveAt(iv_calls, k)
            /\ UNCHANGED <<adjustForm, isAdjustDialogOpen>>
    /\ UNCHANGED <<serverVars, stockVars, otherThanInventory, location, iv_inventory,
                   iv_transactions, iv_loading>>

\* the adjustments in the ledger, in flight, or rejected and not yet reported
Adjustments ==
    Len(stock_transactions)
    + Cardinality({k \in DOMAIN iv_calls :
                      iv_calls[k].op = "adjust" /\ iv_calls[k].state /= "resolved"})

\* The user fills the form while no request is in flight, and may press
\* Submit a second time while the first adjustment is still on its way.
Idle == iv_calls = <<>>
SubmittedOnce ==
    Len(iv_calls) = 1 /\ iv_calls[1].op = "adjust" /\ iv_calls[1].state = "request"

Inventory ==
    \/ \E k \in DOMAIN iv_calls : ServerAdjustStock(k)
    \/ \E k \in DOMAIN iv_calls : IVServerGetInventory(k)
    \/ \E k \in DOMAIN iv_calls : IVServerGetTransactions(k)
    \/ \E k \in DOMAIN iv_calls : IVRequestFails(k)
    \/ \E k \in DOMAIN iv_calls : FetchDataSettle(k)
    \/ \E k \in DOMAIN iv_calls : HandleAdjustStockSettle(k)
    \/ \E inv \in Range(iv_inventory) :
          ~iv_loading /\ ~isAdjustDialogOpen /\ Idle /\ openAdjustDialog(inv)
    \/ isAdjustDialogOpen /\ Idle /\ DismissAdjustDialog
    \/ \E v \in TransactionTypes : isAdjustDialogOpen /\ Idle /\ SetAdjustType(v)
    \/ \E value \in AdjustQuantities :
          isAdjustDialogOpen /\ Idle /\ SetAdjustQuantity(value)
    \/ /\ isAdjustDialogOpen
       /\ Adjustments < MaxAdjustments
       /\ Idle \/ SubmittedOnce
       /\ handleAdjustStock

\* The Inventory page alone, on one inventory record.
InitStock ==
    /\ InitBackend({1})
    /\ InitDashboard
    /\ InitMenuManagement(<<>>)
    /\ InitBillHistory(<<>>)
    /\ InitSalesReport(<<>>)
    /\ InitInventory(<<FetchDataRequest>>)
    /\ InitSettings(<<>>)
    /\ InitSession(Null)

NextStock == Inventory

SpecStock == InitStock /\ [][NextStock]_vars

\* -------------------------------------------------- Settings: modifiers
\* String.prototype.trim on the names typed
Trim(str) == IF str = " " THEN "" ELSE str

FetchSettingsRequest == [op |-> "fetchSettings", state |-> "request"]

\* backend: GET /modifiers
STServerGetModifiers(k) ==
    /\ st_calls[k].op = "fetchSettings"
    /\ st_calls[k].state = "request"
    /\ st_calls' = [st_calls EXCEPT ![k] = [op |-> "fetchSettings", state |-> "resolved",
                                            data |-> modifier_store]]
    /\ toast' = NoToast
    /\ UNCHANGED <<serverVars, otherThanSettings, modifier_store, st_modifiers, st_loading,
                   modifierForm, editingModifier, isModifierDialogOpen>>

\* backend: POST /modifiers adds the modifier under a new id, PUT
\* /modifiers/{id} replaces the stored one
SaveModifierInStore(store, call) ==
    IF call.id = NoId
    THEN Append(store, [id |-> Len(store) + 1, name |-> call.data.name,
                        options |-> call.data.options])
    ELSE [i \in DOMAIN store |->
            IF store[i].id = call.id
            THEN [id |-> call.id, name |-> call.data.name, options |-> call.data.options]
            ELSE store[i]]

STServerSaveModifier(k) ==
    /\ st_calls[k].op = "saveModifier"
    /\ st_calls[k].state = "request"
    /\ modifier_store' = SaveModifierInStore(modifier_store, st_calls[k])
    /\ st_calls' = [st_calls EXCEPT ![k].state = "resolved"]
    /\ toast' = NoToast
    /\ UNCHANGED <<serverVars, otherThanSettings, st_modifiers, st_loading, modifierForm,
                   editingModifier, isModifierDialogOpen>>

\* axios rejects the request
STRequestFails(k) ==
    /\ st_calls[k].state = "request"
    /\ st_calls' = [st_calls EXCEPT ![k].state = "rejected"]
    /\ toast' = NoToast
    /\ UNCHANGED <<serverVars, otherThanSettings, modifier_store, st_modifiers, st_loading,
                   modifierForm, editingModifier, isModifierDialogOpen>>

\* fetchSettings after the await: setModifiers(modifiersRes.data), or the catch
\* (console.error only); finally
FetchSettingsSettle(k) ==
    /\ st_calls[k].op = "fetchSettings"
    /\ st_calls[k].state /= "request"
    /\ st_modifiers' = IF st_calls[k].state = "resolved" THEN st_calls[k].data
                       ELSE st_modifiers
    /\ st_loading' = FALSE
    /\ st_calls' = RemoveAt(st_calls, k)
    /\ toast' = NoToast
    /\ UNCHANGED <<serverVars, otherThanSettings, modifier_store, modifierForm,
                   editingModifier, isModifierDialogOpen>>

openNewModifierDialog ==
    /\ modifierForm' = emptyModifier
    /\ editingModifier' = NoId
    /\ isModifierDialogOpen' = TRUE
    /\ toast' = NoToast
    /\ UNCHANGED <<serverVars, otherThanSettings, modifier_store, st_modifiers, st_loading,
                   st_calls>>

openEditModifierDialog(mod) ==
    /\ modifierForm' = [name |-> mod.name, options |-> mod.options]
    /\ editingModifier' = mod.id
    /\ isModifierDialogOpen' = TRUE
    /\ toast' = NoToast
    /\ UNCHANGED <<serverVars, otherThanSettings, modifier_store, st_modifiers, st_loading,
                   st_calls>>

\* the dialog is dismissed (Cancel, onOpenChange)
DismissModifierDialog ==
    /\ isModifierDialogOpen' = FALSE
    /\ toast' = NoToast
    /\ UNCHANGED <<serverVars, otherThanSettings, modifier_store, st_modifiers, st_loading,
                   modifierForm, editingModifier, st_calls>>

\* the name field
SetModifierName(value) ==
    /\ modifierForm' = [modifierForm EXCEPT !.name = value]
    /\ toast' = NoToast
    /\ UNCHANGED <<serverVars, otherThanSettings, modifier_store, st_modifiers, st_loading,
                   editingModifier, isModifierDialogOpen, st_calls>>

addOption ==
    /\ modifierForm' = [modifierForm EXCEPT !.options = Append(@, "")]
    /\ toast' = NoToast
    /\ UNCHANGED <<serverVars, otherThanSettings, modifier_store, st_modifiers, st_loading,
                   editingModifier, isModifierDialogOpen, st_calls>>

removeOption(idx) ==
    /\ modifierForm' = [modifierForm EXCEPT !.options = RemoveAt(@, idx)]
    /\ toast' = NoToast
    /\ UNCHANGED <<serverVars, otherThanSettings, modifier_store, st_modifiers, st_loading,
                   editingModifier, isModifierDialogOpen, st_calls>>

\* updateOption(idx, "name", value)
updateOption(idx, value) ==
    /\ modifierForm' = [modifierForm EXCEPT !.options[idx] = value]
    /\ toast' = NoToast
    /\ UNCHANGED <<serverVars, otherThanSettings, modifier_store, st_modifiers, st_loading,
                   editingModifier, isModifierDialogOpen, st_calls>>

\* modifierForm.options.filter(o => o.name.trim())
validOptions == SelectSeq(modifierForm.options, LAMBDA o : Trim(o) /= "")

\* mutant: the options are sent as typed
sentOptionsUnfiltered == modifierForm.options
\* the options of the request body
sentOptions == validOptions

\* saveModifier up to the await: the two guards, then the PUT or the POST
saveModifier ==
    /\ IF modifierForm.name = "" \/ Len(modifierForm.options) = 0
       THEN toast' = "Name and at least one option required" /\ UNCHANGED st_calls
       ELSE IF Len(validOptions) = 0
       THEN toast' = "At least one valid option required" /\ UNCHANGED st_calls
       ELSE /\ st_calls' = Append(st_calls,
                               [op |-> "saveModifier", state |-> "request",
                                id |-> editingModifier,
                                data |-> [name |-> modifierForm.name,
                                          options |-> sentOptions]])
            /\ toast' = NoToast
    /\ UNCHANGED <<serverVars, otherThanSettings, modifier_store, st_modifiers, st_loading,
                   modifierForm, editingModifier, isModifierDialogOpen>>

\* saveModifier after the await: the toast, the dialog closes and fetchSettings
\* is called; or the catch
SaveModifierSettle(k) ==
    /\ st_calls[k].op = "saveModifier"
    /\ st_calls[k].state /= "request"
    /\ IF st_calls[k].state = "resolved"
       THEN /\ toast' = (IF st_calls[k].id /= NoId THEN "Modifier updated"
                         ELSE "Modifier created")
            /\ isModifierDialogOpen' = FALSE
            /\ st_calls' = Append(RemoveAt(st_calls, k), FetchSettingsRequest)
       ELSE /\ toast' = "Failed to save modifier"
            /\ st_calls' = RemoveAt(st_calls, k)
            /\ UNCHANGED isModifierDialogOpen
    /\ UNCHANGED <<serverVars, otherThanSettings, modifier_store, st_modifiers, st_loading,
                   modifierForm, editingModifier>>

\* The Settings page alone.  The user works in the dialog while no request is
\* in flight; the store holds at most MaxModifiers modifiers and an option
\* list at most MaxOptions options.
SettingsIdle == st_calls = <<>>

Settings ==
    \/ \E k \in DOMAIN st_calls : STServerGetModifiers(k)
    \/ \E k \in DOMAIN st_calls : STServerSaveModifier(k)
    \/ \E k \in DOMAIN st_calls : STRequestFails(k)
    \/ \E k \in DOMAIN st_calls : FetchSettingsSettle(k)
    \/ \E k \in DOMAIN st_calls : SaveModifierSettle(k)
    \/ ~isModifierDialogOpen /\ SettingsIdle /\ openNewModifierDialog
    \/ \E mod \in Range(st_modifiers) :
          ~isModifierDialogOpen /\ SettingsIdle /\ openEditModifierDialog(mod)
    \/ isModifierDialogOpen /\ SettingsIdle /\ DismissModifierDialog
    \/ \E value \in ModifierNames :
          isModifierDialogOpen /\ SettingsIdle /\ SetModifierName(value)
    \/ /\ isModifierDialogOpen /\ SettingsIdle
       /\ Len(modifierForm.options) < MaxOptions
       /\ addOption
    \/ \E idx \in DOMAIN modifierForm.options :
          /\ isModifierDialogOpen /\ SettingsIdle
          /\ Len(modifierForm.options) > 1
          /\ removeOption(idx)
    \/ \E idx \in DOMAIN modifierForm.options, value \in OptionNames :
          isModifierDialogOpen /\ SettingsIdle /\ updateOption(idx, value)
    \/ /\ isModifierDialogOpen /\ SettingsIdle
       /\ editingModifier = NoId => Len(modifier_store) < MaxModifiers
       /\ saveModifier

InitModifiers ==
    /\ InitBackend({1})
    /\ InitDashboard
    /\ InitMenuManagement(<<>>)
    /\ InitBillHistory(<<>>)
    /\ InitSalesReport(<<>>)
    /\ InitInventory(<<>>)
    /\ InitSettings(<<FetchSettingsRequest>>)
    /\ InitSession(Null)

NextModifiers == Settings

SpecModifiers == InitModifiers /\ [][NextModifiers]_vars

\* ------------------------------------------------------ App: the routes
\* One browser: its localStorage (token, user), the path its router shows
\* (location) and the page mounted there.  The pages are the components
\* modelled above, one mounted at a time.
Paths == {"/login", "/", "/manage", "/history", "/reports", "/settings", "/inventory"}
ProtectedPaths == Paths \ {"/login"}

\* mutant: the children are rendered whatever localStorage holds
ProtectedRouteOpen(path, tok) == path
\* ProtectedRoute: <Navigate to="/login" replace /> without a token
ProtectedRoute(path, tok) == IF tok = Null THEN "/login" ELSE path

\* <Routes>: the element of the path
RouteElement(path, tok) ==
    IF path \in ProtectedPaths THEN ProtectedRoute(path, tok) ELSE path

\* the mount effect of Inventory: navigate("/login") without a token
InventoryMountEffect(path, tok) ==
    IF path = "/inventory" /\ tok = Null THEN "/login" ELSE path

\* the path shown after a navigation to path with tok in localStorage
Shown(path, tok) == InventoryMountEffect(RouteElement(path, tok), tok)

\* the state a mount sets: every page's loaded data, loading flag and requests,
\* and the state of Login
mountVars == <<location, menuItems, loading, categoryVars, fetchMenuCall,
               mm_menuItems, mm_loading, mm_calls, bh_bills, bh_loading, bh_calls,
               sr_dailyReport, sr_loading, sr_calls, st_modifiers, st_loading, st_calls,
               iv_inventory, iv_transactions, iv_loading, iv_calls,
               lg_loading, lg_isRegister>>
\* the state no step of this browser changes: the backend, the other browser's
\* route and the fields only the user's work in a page sets
restVars == <<serverVars, stockVars, modifier_store, route, orderItems, discountPercent,
              taxPercent, generatedBill, customerVars, billReqs, billResps,
              bh_searchTerm, bh_startDate, bh_endDate, bh_timers, sr_selectedDate,
              srRange, mm_formData, mm_editingId, mm_isDialogOpen, adjustForm,
              isAdjustDialogOpen, modifierForm, editingModifier, isModifierDialogOpen>>

\* The router shows the element of path: the page shown is mounted with its
\* useState defaults and its mount effect issues its requests; every other
\* page is unmounted, with its defaults and no request.
Render(path, tok) ==
    LET page == Shown(path, tok)
    IN /\ location' = page
       /\ menuItems' = <<>>
       /\ loading' = TRUE
       /\ categories' = <<"All">>
       /\ selectedCategory' = "All"
       /\ fetchMenuCall' = [state |-> IF page = "/" THEN "request" ELSE "done"]
       /\ fetchCategoriesCall' = [state |-> IF page = "/" THEN "request" ELSE "done"]
       /\ mm_menuItems' = <<>>
       /\ mm_loading' = TRUE
       /\ mm_calls' = (IF page = "/manage" THEN <<FetchMenuRequest>> ELSE <<>>)
       /\ bh_bills' = <<>>
       /\ bh_loading' = TRUE
       /\ bh_calls' = (IF page = "/history" THEN <<FetchBillsRequest(NoFilters)>> ELSE <<>>)
       /\ sr_dailyReport' = Null
       /\ sr_loading' = (page = "/reports")
       /\ sr_calls' = (IF page = "/reports" THEN <<DailyReportRequest(today)>> ELSE <<>>)
       /\ st_modifiers' = <<>>
       /\ st_loading' = TRUE
       /\ st_calls' = (IF page = "/settings" THEN <<FetchSettingsRequest>> ELSE <<>>)
       /\ iv_inventory' = <<>>
       /\ iv_transactions' = <<>>
       /\ iv_loading' = TRUE
       /\ iv_calls' = (IF page = "/inventory" THEN <<FetchDataRequest>> ELSE <<>>)
       /\ lg_loading' = FALSE
       /\ lg_isRegister' = FALSE

\* the requests of the pages in flight
PageCalls ==
    Len(mm_calls) + Len(bh_calls) + Len(sr_calls) + Len(st_calls) + Len(iv_calls)
    + (IF fetchMenuCall.state = "done" THEN 0 ELSE 1)
    + (IF fetchCategoriesCall.state = "done" THEN 0 ELSE 1)

\* the address bar, or a reload: the document is loaded anew, the requests of
\* the document left are aborted
LoadPage(path) ==
    /\ Render(path, token)
    /\ lg_calls' = <<>>
    /\ toast' = NoToast
    /\ UNCHANGED <<token, user, restVars>>

\* the <Link> elements of the pages
Links(page) ==
    CASE page = "/" -> {"/history", "/reports", "/manage"}
      [] page = "/login" -> {}
      [] OTHER -> {"/"}

\* a <Link> of the page shown is followed
FollowLink(path) ==
    /\ path \in Links(location)
    /\ Render(path, token)
    /\ toast' = NoToast
    /\ UNCHANGED <<token, user, lg_calls, restVars>>

\* ---------------------------------------------------------------- Login
AuthRequest == [op |-> "auth", state |-> "request", isRegister |-> lg_isRegister]

\* mutant: the submit button is never disabled
SubmitEnabledAlways == TRUE
\* the submit button: disabled={loading}
SubmitEnabled == ~lg_loading

\* the toggle below the form
SetIsRegister ==
    /\ lg_isRegister' = ~lg_isRegister
    /\ toast' = NoToast
    /\ UNCHANGED <<serverVars, otherThanLogin, sessionVars, lg_loading, lg_calls>>

\* handleSubmit up to the await: setLoading(true), POST /auth/register or
\* /auth/login
LoginSubmit ==
    /\ lg_loading' = TRUE
    /\ lg_calls' = Append(lg_calls, AuthRequest)
    /\ toast' = NoToast
    /\ UNCHANGED <<serverVars, otherThanLogin, sessionVars, lg_isRegister>>

AuthDetails == {"", "Invalid email or password"}
\* the access token and the user of an auth response
IssuedToken == [jwt |-> "tok"]
AdminUser == [email |-> "admin@cafebrew.com"]

\* backend: POST /auth/login and /auth/register answer with a token and the
\* user, or refuse with a detail (or none: the network fails)
LGServerAuth(k) ==
    /\ lg_calls[k].state = "request"
    /\ \/ lg_calls' = [lg_calls EXCEPT ![k] =
                        [op |-> "auth", state |-> "resolved",
                         isRegister |-> lg_calls[k].isRegister,
                         access_token |-> IssuedToken, user |-> AdminUser]]
       \/ \E detail \in AuthDetails :
            lg_calls' = [lg_calls EXCEPT ![k] =
                           [op |-> "auth", state |-> "rejected",
                            isRegister |-> lg_calls[k].isRegister, detail |-> detail]]
    /\ toast' = NoToast
    /\ UNCHANGED <<serverVars, otherThanLogin, sessionVars, lg_loading, lg_isRegister>>

\* handleSubmit after the await: localStorage.setItem twice, the toast and
\* navigate("/"); or the catch; finally
LoginSettle(k) ==
    /\ lg_calls[k].state /= "request"
    /\ lg_calls' = RemoveAt(lg_calls, k)
    /\ IF lg_calls[k].state = "resolved"
       THEN /\ token' = lg_calls[k].access_token
            /\ user' = lg_calls[k].user
            /\ toast' = (IF lg_calls[k].isRegister THEN "Account created!"
                         ELSE "Welcome back!")
            /\ Render("/", token')
       ELSE /\ toast' = (IF lg_calls[k].detail = "" THEN "Authentication failed"
                         ELSE lg_calls[k].detail)
            /\ lg_loading' = FALSE
            /\ UNCHANGED <<token, user, location, menuItems, loading, categoryVars,
                           fetchMenuCall, mm_menuItems, mm_loading, mm_calls, bh_bills,
                           bh_loading, bh_calls, sr_dailyReport, sr_loading, sr_calls,
                           st_modifiers, st_loading, st_calls, iv_inventory,
                           iv_transactions, iv_loading, iv_calls, lg_isRegister>>
    /\ UNCHANGED restVars

Login ==
    \/ location = "/login" /\ SetIsRegister
    \/ location = "/login" /\ SubmitEnabled /\ LoginSubmit
    \/ \E k \in DOMAIN lg_calls : LGServerAuth(k)
    \/ \E k \in DOMAIN lg_calls : LoginSettle(k)

\* The browser from its first visit: nothing in localStorage, the Login page
\* shown.  The user signs in, loads pages by their address and follows the
\* links of the pages; each page runs its mount requests, and the backend may
\* answer the data load of Inventory with 401.  A link is followed when the
\* requests of the page shown have settled.
InitBrowser ==
    /\ InitBackend({1})
    /\ InitDashboardState("done")
    /\ InitMenuManagement(<<>>)
    /\ InitBillHistory(<<>>)
    /\ InitSalesReport(<<>>)
    /\ InitInventory(<<>>)
    /\ InitSettings(<<>>)
    /\ InitSession(Null)

NextSession ==
    \/ \E path \in Paths : PageCalls = 0 /\ FollowLink(path)
    \/ \E path \in Paths : LoadPage(path)
    \/ Login
    \/ MenuLoad
    \/ CategoryLoad
    \/ \E k \in DOMAIN mm_calls : MMServerGetMenu(k)
    \/ \E k \in DOMAIN mm_calls : MMFetchMenuSettle(k)
    \/ \E k \in DOMAIN bh_calls : BHServerGetBills(k)
    \/ \E k \in DOMAIN bh_calls : FetchBillsSettle(k)
    \/ \E k \in DOMAIN sr_calls : SRServerGetDaily(k)
    \/ \E k \in DOMAIN sr_calls : FetchDailyReportSettle(k)
    \/ \E k \in DOMAIN st_calls : STServerGetModifiers(k)
    \/ \E k \in DOMAIN st_calls : FetchSettingsSettle(k)
    \/ \E k \in DOMAIN iv_calls : IVServerGetInventory(k)
    \/ \E k \in DOMAIN iv_calls : IVServerGetTransactions(k)
    \/ \E k \in DOMAIN iv_calls : IVRequestFails(k)
    \/ \E k \in DOMAIN iv_calls : IVRequestUnauthorized(k)
    \/ \E k \in DOMAIN iv_calls : FetchDataSettle(k)
    \/ \E k \in DOMAIN mm_calls : MMRequestFails(k)
    \/ \E k \in DOMAIN st_calls : STRequestFails(k)

SpecSession == InitBrowser /\ [][NextSession]_vars

\* ===================================================== checked properties
ErrorToasts == {"Failed to load menu", "Add items to generate bill",
                "Failed to generate bill"}
OutOfRange(v) == v < 0 \/ v > 100

RECURSIVE LineSum(_, _)
LineSum(items, I) ==
    IF I = {} THEN 0
    ELSE LET i == CHOOSE x \in I : TRUE
         IN (items[i].price * items[i].quantity) + LineSum(items, I \ {i})

\* C1: in every Dashboard state the derived amounts satisfy
\* discount_amount = subtotal * discount_percent / 100,
\* tax_amount = (subtotal - discount_amount) * tax_percent / 100 and
\* total = subtotal - discount_amount + tax_amount.
C1_DerivedAmounts ==
    /\ discountAmount * 100 = subtotal * discountPercent
    /\ taxAmount * 100 = (subtotal - discountAmount) * taxPercent
    /\ total = subtotal - discountAmount + taxAmount

\* 2 x 3.00 + 1 x 1.50 at 10% discount and 23% tax: total 8.3025
C1_Witness ==
    /\ Len(orderItems) = 2
    /\ discountPercent = 10 /\ taxPercent = 23
    /\ subtotal = 750 * Scale
    /\ discountAmount = 75 * Scale
    /\ total = 8302500

\* C2: subtotal is the sum over the current order lines of unit price times
\* quantity, and 0 for the empty order.
C2_SubtotalIsLineSum ==
    subtotal = Scale * LineSum(orderItems, DOMAIN orderItems)

C2_Witness ==
    /\ Len(orderItems) = 2
    /\ orderItems[1].menu_item_id = 2 /\ orderItems[1].quantity = 1
    /\ orderItems[2].quantity = 2
    /\ subtotal = 750 * Scale

\* C4 as stated: an out-of-range percent entered in the discount or tax field
\* is rejected, that is the previous percent stays and an error is reported.
C4_OutOfRangeRejected ==
    [][\A v \in PercentInputs : OutOfRange(v) =>
          /\ SetDiscountPercent(v) =>
                discountPercent' = discountPercent /\ toast' \in ErrorToasts
          /\ SetTaxPercent(v) =>
                taxPercent' = taxPercent /\ toast' \in ErrorToasts]_vars

\* C4 amended: an out-of-range percent entered in the discount or tax field is
\* silently clamped into [0,100] (negative to 0, above 100 to 100); the order
\* lines and the other percent stay unchanged and no error is reported.
C4_OutOfRangeClamped ==
    [][\A v \in PercentInputs : OutOfRange(v) =>
          /\ SetDiscountPercent(v) =>
                /\ v < 0 => discountPercent' = 0
                /\ v > 100 => discountPercent' = 100
                /\ toast' \notin ErrorToasts
                /\ UNCHANGED <<orderItems, taxPercent>>
          /\ SetTaxPercent(v) =>
                /\ v < 0 => taxPercent' = 0
                /\ v > 100 => taxPercent' = 100
                /\ toast' \notin ErrorToasts
                /\ UNCHANGED <<orderItems, discountPercent>>]_vars

C4_Witness ==
    /\ Len(orderItems) > 0
    /\ discountPercent = 100
    /\ taxPercent = 0

AllLines(items) == {items[i] : i \in DOMAIN items}
StoredOrSent == Range(billReqs) \cup Range(bills)

\* C3: generateBill on an order with zero lines is rejected: it reports the
\* error, sends no POST /bills request, stores no bill and leaves generatedBill
\* and the order state unchanged; so no request or stored bill ever has an
\* empty item list.
C3_EmptyOrderRejected ==
    /\ [](\A b \in StoredOrSent : Len(b.items) > 0)
    /\ [][(Len(orderItems) = 0 /\ toast' = "Add items to generate bill") =>
             UNCHANGED <<billReqs, billResps, bills, bill_counter, generatedBill,
                         orderItems, discountPercent, taxPercent>>]_vars

\* generateBill was called on the empty order after a bill had been generated
\* and the order cleared
C3_Witness ==
    /\ Len(orderItems) = 0
    /\ toast = "Add items to generate bill"
    /\ Len(bills) = 1
    /\ billReqs = <<>>

\* C5: in every Dashboard state and in every POST /bills body the discount and
\* tax percents lie in [0,100].
C5_PercentsInRange ==
    /\ discountPercent >= 0 /\ discountPercent <= 100
    /\ taxPercent >= 0 /\ taxPercent <= 100
    /\ \A i \in DOMAIN billReqs :
          /\ billReqs[i].discount_percent >= 0 /\ billReqs[i].discount_percent <= 100
          /\ billReqs[i].tax_percent >= 0 /\ billReqs[i].tax_percent <= 100

\* -5 was entered as discount and 150 as tax before the bill was requested
C5_Witness ==
    \E i \in DOMAIN billReqs :
        billReqs[i].discount_percent = 0 /\ billReqs[i].tax_percent = 100

\* C6: every order line has quantity >= 1, and so has every line sent in a
\* bill request.
C6_QuantityAtLeastOne ==
    /\ \A o \in AllLines(orderItems) : o.quantity >= 1
    /\ \A i \in DOMAIN billReqs : \A o \in AllLines(billReqs[i].items) : o.quantity >= 1

\* a line of quantity 1 was sent, and the order was decremented afterwards
C6_Witness ==
    /\ \E i \in DOMAIN billReqs : \E o \in AllLines(billReqs[i].items) : o.quantity = 1
    /\ \E o \in AllLines(orderItems) : o.quantity = 1
    /\ generatedBill = Null
    /\ toast = NoToast

\* C8: bill numbers are unique and strictly increasing in the order the bills
\* are stored, also when the requests overlap in flight; two responses never
\* carry the same bill_number.
C8_BillNumbersUnique ==
    /\ \A i, j \in DOMAIN bills : i < j => bills[i].bill_number < bills[j].bill_number
    /\ \A i, j \in DOMAIN billResps :
          (i /= j /\ billResps[i].ok /\ billResps[j].ok) =>
              billResps[i].data.bill_number /= billResps[j].data.bill_number

\* two requests were in flight together and both have been answered
C8_Witness ==
    /\ Len(bills) = 2
    /\ Len(billResps) = 2
    /\ billResps[1].ok /\ billResps[2].ok

\* C7: the unit price of an order line is fixed when the line is added: no
\* step changes the price of a line that stays in the order, whatever happens
\* to the item's price in the menu store, also when the item is added again.
C7_LinePriceFixed ==
    [][\A i \in DOMAIN orderItems : \A j \in DOMAIN orderItems' :
          orderItems[i].menu_item_id = orderItems'[j].menu_item_id =>
              orderItems'[j].price = orderItems[i].price]_vars

\* the item was added again after its price had changed in the menu store
C7_Witness ==
    /\ Len(orderItems) = 1
    /\ orderItems[1].quantity = 2
    /\ orderItems[1].price = 300
    /\ menu_items[orderItems[1].menu_item_id].price = 250
    /\ toast = "Added"

\* C9: the bill store is append-only and its bills never change: a step leaves
\* the stored bills as they are and adds at most one; a bill is added exactly
\* by the handling of one POST /bills request, whose response carries that
\* bill; the answers in flight to successful generateBill calls are distinct
\* stored bills; and the bill the Dashboard shows and every bill BillHistory
\* lists equal a stored bill, derived amounts included, whatever Dashboard,
\* BillHistory and SalesReport do in between.
C9_BillStoreAppendOnly ==
    /\ [][/\ Len(bills') \in {Len(bills), Len(bills) + 1}
          /\ SubSeq(bills', 1, Len(bills)) = bills
          /\ Len(bills') = Len(bills) + 1 =>
                /\ Len(billReqs') = Len(billReqs) - 1
                /\ billResps' = Append(billResps, [ok |-> TRUE,
                                                   data |-> bills'[Len(bills')]])]_vars
    /\ [](\A j \in DOMAIN billResps : billResps[j].ok =>
             /\ billResps[j].data \in Range(bills)
             /\ \A k \in DOMAIN billResps :
                   (k /= j /\ billResps[k].ok) => billResps[k].data /= billResps[j].data)
    /\ [](generatedBill /= Null => generatedBill \in Range(bills))
    /\ [](\A i \in DOMAIN bh_bills : bh_bills[i] \in Range(bills))
    /\ [](\A k \in DOMAIN bh_calls : bh_calls[k].state = "resolved" =>
             \A i \in DOMAIN bh_calls[k].data : bh_calls[k].data[i] \in Range(bills))

\* two bills were generated, the second after BillHistory had listed the first
\* and read again: the list still starts with the first bill as stored
C9_Witness ==
    /\ Len(bills) = 2
    /\ generatedBill = bills[2]
    /\ bh_bills = bills
    /\ route = "/history"
    /\ bills[1].total /= bills[2].total
    /\ toast = "Bill generated"

\* SalesReport has aggregated the stored bills
C9_WitnessReport ==
    /\ route = "/reports"
    /\ sr_dailyReport /= Null
    /\ sr_dailyReport.total_bills = 2

\* C11: with the menu's non-negative prices, quantities of at least 1 and
\* percents in [0,100], total >= taxable amount >= 0 and total >= tax amount.
C11_TotalBounds ==
    /\ taxableAmount >= 0
    /\ total >= taxableAmount
    /\ total >= taxAmount

\* the boundary: a 100% discount leaves nothing to tax, total = tax amount = 0;
\* reached by entering 150 in the discount field
C11_Witness ==
    /\ Len(orderItems) = 2
    /\ discountPercent = 100 /\ taxPercent = 100
    /\ subtotal > 0
    /\ taxableAmount = 0 /\ total = 0

\* C12: a discount percent of 0 gives a discount amount of 0 and a taxable
\* amount equal to the subtotal, for every order.
C12_ZeroDiscount ==
    discountPercent = 0 => (discountAmount = 0 /\ taxableAmount = subtotal)

\* -5 was entered in the discount field of an order that is taxed
C12_Witness ==
    /\ Len(orderItems) = 2
    /\ orderItems[1].quantity = 2
    /\ discountPercent = 0 /\ taxPercent = 23
    /\ taxableAmount = subtotal /\ subtotal > 0
    /\ generatedBill = Null /\ toast = NoToast

\* C13: a tax percent of 0 gives a tax amount of 0 and a total equal to the
\* taxable amount, for every order and every discount percent.
C13_ZeroTax ==
    taxPercent = 0 => (taxAmount = 0 /\ total = taxableAmount)

\* -5 was entered in the tax field of an order discounted by 10%
C13_Witness ==
    /\ Len(orderItems) = 2
    /\ taxPercent = 0 /\ discountPercent = 10
    /\ subtotal > 0 /\ total = taxableAmount /\ total < subtotal

\* the transactions of record id, oldest first
LedgerOf(id) == SelectSeq(stock_transactions, LAMBDA tx : tx.inventory_id = id)

\* C14: the transaction an adjustment appends records new_stock = previous +
\* quantity for restock, previous - quantity floored at 0 for waste and the
\* quantity itself for adjustment, the record then holds that new_stock, and
\* no record's current_stock is ever negative.
C14_NewStockByType ==
    /\ [][Len(stock_transactions') > Len(stock_transactions) =>
            LET tx == stock_transactions'[Len(stock_transactions')]
                p == inventory_records[tx.inventory_id].current_stock
                q == tx.quantity
            IN /\ tx.previous_stock = p
               /\ tx.transaction_type = "restock" => tx.new_stock = p + q
               /\ tx.transaction_type = "waste" =>
                     tx.new_stock = (IF q > p THEN 0 ELSE p - q)
               /\ tx.transaction_type = "adjustment" => tx.new_stock = q
               /\ inventory_records'[tx.inventory_id].current_stock = tx.new_stock]_vars
    /\ [](\A id \in DOMAIN inventory_records : inventory_records[id].current_stock >= 0)

\* waste of 8 on a stock of 5 leaves 0
C14_Witness ==
    /\ Len(stock_transactions) = 1
    /\ stock_transactions[1].transaction_type = "waste"
    /\ stock_transactions[1].quantity = 8
    /\ stock_transactions[1].previous_stock = 5
    /\ stock_transactions[1].new_stock = 0
    /\ inventory_records[1].current_stock = 0

\* C15: the stock of a record changes only in a step that appends one
\* transaction, every handled adjustment appends exactly one, and the ledger
\* of each record is a chain: it starts at the stock the record was created
\* with, each previous_stock is the new_stock before it and the last new_stock
\* is the record's current_stock; also with two adjustments in flight at once.
C15_LedgerChain ==
    /\ [][/\ Len(stock_transactions') \in {Len(stock_transactions),
                                           Len(stock_transactions) + 1}
          /\ SubSeq(stock_transactions', 1, Len(stock_transactions)) = stock_transactions
          /\ inventory_records' /= inventory_records =>
                Len(stock_transactions') = Len(stock_transactions) + 1
          /\ (\E k \in DOMAIN iv_calls :
                 /\ iv_calls[k].op = "adjust" /\ iv_calls[k].state = "request"
                 /\ Len(iv_calls') = Len(iv_calls) /\ iv_calls'[k].state = "resolved")
             <=> Len(stock_transactions') = Len(stock_transactions) + 1]_vars
    /\ [](\A id \in DOMAIN inventory_records :
            LET ledger == LedgerOf(id)
            IN /\ ledger = <<>> => inventory_records[id].current_stock = InitialStock
               /\ ledger /= <<>> =>
                     /\ ledger[1].previous_stock = InitialStock
                     /\ ledger[Len(ledger)].new_stock = inventory_records[id].current_stock
               /\ \A i \in 1..(Len(ledger) - 1) :
                     ledger[i + 1].previous_stock = ledger[i].new_stock)

\* two adjustments of record 1 were in flight together and both were handled
C15_Witness ==
    /\ Len(iv_calls) = 2
    /\ \A k \in DOMAIN iv_calls :
          /\ iv_calls[k].op = "adjust" /\ iv_calls[k].state = "resolved"
          /\ iv_calls[k].inventory_id = 1
    /\ Len(stock_transactions) = 2
    /\ stock_transactions[2].previous_stock = stock_transactions[1].new_stock
    /\ stock_transactions[2].new_stock /= stock_transactions[1].new_stock

\* the reports a page holds or is about to receive
ReportsHeld ==
    {r \in {sr_dailyReport, sr_rangeReport} : r /= Null}
    \cup {sr_calls[k].data : k \in {x \in DOMAIN sr_calls : sr_calls[x].state = "resolved"}}

\* C16: a report over a window without bills has total_bills = 0,
\* total_revenue = 0, avg_bill_value = 0 and no top items, the backend answers
\* it without an error of its own, and once it is stored the tab shows the
\* statistics cards and offers no export.
C16_EmptyWindowReport ==
    /\ [](\A r \in ReportsHeld :
            r.total_bills = 0 =>
                r.total_revenue = 0 /\ r.avg_bill_value = 0 /\ r.top_items = <<>>)
    /\ [](\A k \in DOMAIN sr_calls :
            (sr_calls[k].state = "rejected" /\ "error" \in DOMAIN sr_calls[k]) =>
                sr_calls[k].end_date < sr_calls[k].start_date)
    /\ []((sr_dailyReport /= Null /\ ~ExportDailyShown /\ ~sr_loading) => DailyStatsShown)
    /\ []((sr_rangeReport /= Null /\ ~ExportRangeShown /\ ~sr_loading) => RangeStatsShown)
    /\ [][(sr_dailyReport' /= sr_dailyReport /\ sr_dailyReport' /= Null) =>
            (sr_dailyReport'.total_bills = 0 =>
                DailyStatsShown' /\ ~ExportDailyShown' /\ toast' = NoToast)]_vars
    /\ [][(sr_rangeReport' /= sr_rangeReport /\ sr_rangeReport' /= Null) =>
            (sr_rangeReport'.total_bills = 0 =>
                RangeStatsShown' /\ ~ExportRangeShown' /\ toast' = NoToast)]_vars

\* the store holds a bill of day 1 and the daily tab shows the report of day 2
C16_Witness ==
    /\ Len(bills) >= 1
    /\ sr_dailyReport /= Null
    /\ sr_dailyReport.date = 2
    /\ sr_dailyReport.total_bills = 0
    /\ sr_dailyReport.avg_bill_value = 0
    /\ DailyStatsShown /\ ~ExportDailyShown

\* the range reports a page holds or is about to receive
RangeReportsHeld == {r \in ReportsHeld : "daily_breakdown" \in DOMAIN r}

\* C17: the daily_breakdown of a range report has one entry for every day
\* from start to end, in date order; an entry counts the bills of its day as
\* stored when the report is made, and a day without bills has bill_count 0
\* and revenue 0.
C17_BreakdownEveryDay ==
    /\ [](\A r \in RangeReportsHeld :
            /\ Len(r.daily_breakdown) = r.end_date - r.start_date + 1
            /\ \A i \in DOMAIN r.daily_breakdown :
                  /\ r.daily_breakdown[i].date = r.start_date + i - 1
                  /\ r.daily_breakdown[i].bill_count >= 0
                  /\ r.daily_breakdown[i].bill_count = 0 =>
                        r.daily_breakdown[i].revenue = 0)
    /\ [][\A k \in DOMAIN sr_calls :
            (/\ sr_calls[k].op = "range" /\ sr_calls[k].state = "request"
             /\ k \in DOMAIN sr_calls' /\ sr_calls'[k].state = "resolved") =>
                \A i \in DOMAIN sr_calls'[k].data.daily_breakdown :
                    LET day == sr_calls'[k].data.daily_breakdown[i]
                    IN day.bill_count =
                          Cardinality({j \in DOMAIN bills : bills[j].created_at = day.date})]_vars

\* a report of days 1 to 2 with bills on day 1 only
C17_Witness ==
    /\ sr_rangeReport /= Null
    /\ sr_rangeReport.start_date = 1 /\ sr_rangeReport.end_date = 2
    /\ sr_rangeReport.total_bills = 2
    /\ Len(sr_rangeReport.daily_breakdown) = 2
    /\ sr_rangeReport.daily_breakdown[1].bill_count = 2
    /\ sr_rangeReport.daily_breakdown[2].bill_count = 0
    /\ sr_rangeReport.daily_breakdown[2].revenue = 0

\* C18: a range request whose end is before its start is answered with an
\* InvalidRange error and never with a report: rangeReport never holds a
\* report of such bounds, and the failure leaves rangeReport as it was and
\* raises the error toast.
C18_InvalidRangeRejected ==
    /\ [](\A r \in RangeReportsHeld : r.start_date <= r.end_date)
    /\ [][\A k \in DOMAIN sr_calls :
            (/\ sr_calls[k].op = "range" /\ sr_calls[k].state = "request"
             /\ sr_calls[k].end_date < sr_calls[k].start_date
             /\ k \in DOMAIN sr_calls' /\ sr_calls'[k].state /= "request") =>
                sr_calls'[k].state = "rejected"]_vars
    /\ [][\A k \in DOMAIN sr_calls :
            (/\ sr_calls[k].state = "rejected" /\ sr_calls[k].op = "range"
             /\ Len(sr_calls') < Len(sr_calls)) =>
                /\ sr_rangeReport' = sr_rangeReport
                /\ toast' = "Failed to load range report"]_vars

\* the backend has answered the request for days 2 to 1 with InvalidRange
C18_Witness ==
    /\ sr_startDate = 2 /\ sr_endDate = 1
    /\ \E k \in DOMAIN sr_calls :
          /\ sr_calls[k].state = "rejected"
          /\ "error" \in DOMAIN sr_calls[k]
          /\ sr_calls[k].error = "InvalidRange"
    /\ sr_loading

\* C10 as stated: an item whose available flag is false in the menu store is
\* never offered by the Dashboard and no step adds it to the order or raises
\* its quantity.
C10_UnavailableNeverOrdered ==
    /\ [](\A item \in Range(menuItems) : menu_items[item.id].available)
    /\ [][\A id \in DOMAIN menu_items :
             (\E j \in DOMAIN orderItems' :
                 /\ orderItems'[j].menu_item_id = id
                 /\ \A i \in DOMAIN orderItems :
                       orderItems[i].menu_item_id = id =>
                           orderItems[i].quantity < orderItems'[j].quantity)
             => menu_items[id].available]_vars
\* C19 as stated: whenever a mounted page has its loading flag set for a
\* backend request, loading eventually returns to false, whether the request
\* succeeds or fails.
C19_LoadingEventuallyFalse ==
    /\ (route = "/history" /\ bh_loading) ~> (route = "/history" => ~bh_loading)
    /\ (route = "/reports" /\ sr_loading) ~> (route = "/reports" => ~sr_loading)
\* C20 as stated: every failed backend request of a page ends in an error
\* toast: the step that handles the failure of the menu load, of a bills
\* request or of a report request raises a toast.
C20_NoSilentFailure ==
    /\ [][FetchMenuReject => toast' /= NoToast]_vars
    /\ [][\A k \in DOMAIN bh_calls :
            (bh_calls[k].state = "rejected" /\ Len(bh_calls') < Len(bh_calls)) =>
                toast' /= NoToast]_vars
    /\ [][\A k \in DOMAIN sr_calls :
            (sr_calls[k].state = "rejected" /\ Len(sr_calls') < Len(sr_calls)) =>
                toast' /= NoToast]_vars
\* C25: the order holds at most one line per menu_item_id; addToOrder of an
\* item already in the order raises the quantity of its line by exactly 1
\* and adds no line, and of a new item appends one line of quantity 1; the
\* other lines stay as they are.
C25_OneLinePerItem ==
    /\ [](\A i, j \in DOMAIN orderItems :
            orderItems[i].menu_item_id = orderItems[j].menu_item_id => i = j)
    /\ [][\A item \in Range(menuItems) : AddToOrder(item) =>
            IF HasLine(orderItems, item.id)
            THEN /\ Len(orderItems') = Len(orderItems)
                 /\ \A i \in DOMAIN orderItems :
                       orderItems'[i] =
                          IF orderItems[i].menu_item_id = item.id
                          THEN [orderItems[i] EXCEPT !.quantity = @ + 1]
                          ELSE orderItems[i]
            ELSE /\ Len(orderItems') = Len(orderItems) + 1
                 /\ SubSeq(orderItems', 1, Len(orderItems)) = orderItems
                 /\ orderItems'[Len(orderItems')].menu_item_id = item.id
                 /\ orderItems'[Len(orderItems')].quantity = 1]_vars

\* item 1 has just been added again to an order that also holds item 2
C25_Witness ==
    /\ Len(orderItems) = 2
    /\ orderItems[1].menu_item_id = 1 /\ orderItems[1].quantity = 2
    /\ orderItems[2].menu_item_id = 2 /\ orderItems[2].quantity = 1
    /\ toast = "Added"

\* C26 as stated: updateQuantity(item, -1) removes a line whose quantity is 1
\* and lowers a larger quantity by exactly 1; every other line is unchanged.
C26_DecrementDropsAtZero ==
    [][\A i \in DOMAIN orderItems :
          UpdateQuantity(orderItems[i].menu_item_id, -1) =>
              IF orderItems[i].quantity = 1
              THEN orderItems' = RemoveAt(orderItems, i)
              ELSE orderItems' = [orderItems EXCEPT ![i].quantity = @ - 1]]_vars
\* C27: clearOrder empties orderItems, sets discountPercent to 0, the customer
\* name, table number and NIF to the empty string and generatedBill to null,
\* and leaves taxPercent, currency, the loaded menu, the categories and the
\* selected category as they are.
C27_ClearOrderResets ==
    [][toast' = "Order cleared" =>
          /\ orderItems' = <<>>
          /\ discountPercent' = 0
          /\ customerName' = "" /\ tableNumber' = "" /\ nif' = ""
          /\ generatedBill' = Null
          /\ UNCHANGED <<taxPercent, currency, menuItems, loading, categories,
                         selectedCategory>>]_vars

\* the order of the first bill (10% discount, customer fields filled) has been
\* cleared; tax percent, currency and category keep their non-default values
C27_Witness ==
    /\ toast = "Order cleared"
    /\ orderItems = <<>> /\ discountPercent = 0 /\ generatedBill = Null
    /\ customerName = "" /\ tableNumber = "" /\ nif = ""
    /\ taxPercent = 100 /\ currency = "USD" /\ selectedCategory = "Coffee"
    /\ Len(bills) = 1
    /\ bills[1].discount_percent = 10
    /\ bills[1].customer_name = "x" /\ bills[1].table_number = "x" /\ bills[1].nif = "x"
\* C22 as stated: whenever generatedBill is not null, its items,
\* discount_percent and tax_percent are the current orderItems,
\* discountPercent and taxPercent.
C22_GeneratedBillIsCurrentOrder ==
    generatedBill /= Null =>
        /\ generatedBill.items = orderItems
        /\ generatedBill.discount_percent = discountPercent
        /\ generatedBill.tax_percent = taxPercent
\* C23 as stated: when the last outstanding bill-list read of BillHistory
\* completes, the displayed bills are the response to the most recently
\* issued read: the stored bills the current filters admit (the filters
\* being those of the latest Search, or none after the latest Clear).
C23_LatestReadShown ==
    [][(BHReads > 0 /\ BHReads' = 0) =>
          bh_bills' = FilterBills(bills, FetchBillsParams')]_vars
\* C24 as stated: when no daily-report request of SalesReport is outstanding,
\* the displayed dailyReport is the report of the selected date; and loading
\* is true while any report request is in flight.
C24_ReportOfSelectedDate ==
    /\ (/\ \A k \in DOMAIN sr_calls : sr_calls[k].op /= "daily"
        /\ sr_dailyReport /= Null)
           => sr_dailyReport.date = sr_selectedDate
    /\ Len(sr_calls) > 0 => sr_loading
\* C30 as stated: whenever the stock adjustment dialog is opened for an item,
\* the form targets that item and holds the defaults (quantity 0, type
\* restock); and a failed submission leaves the dialog open and the form
\* unchanged.
C30_DialogOpensWithDefaults ==
    /\ [][(~isAdjustDialogOpen /\ isAdjustDialogOpen') =>
            /\ \E inv \in Range(iv_inventory) : adjustForm'.inventory_id = inv.id
            /\ adjustForm'.quantity = 0
            /\ adjustForm'.transaction_type = "restock"]_vars
    /\ [][toast' = "Failed to adjust stock" =>
            UNCHANGED <<adjustForm, isAdjustDialogOpen>>]_vars
\* a modifier as the spec defines it: named, with one or more options, each
\* with a non-blank name
WellFormedModifier(m) ==
    /\ m.name /= ""
    /\ Len(m.options) >= 1
    /\ \A i \in DOMAIN m.options : Trim(m.options[i]) /= ""

InvalidModifierForm ==
    \/ modifierForm.name = ""
    \/ \A i \in DOMAIN modifierForm.options : Trim(modifierForm.options[i]) = ""

\* C21: every modifier saveModifier sends to be created or updated has
\* a non-empty name and at least one option, every option with a non-blank
\* name; with an empty name or without a non-blank option saveModifier sends
\* no request, raises its error and leaves the dialog open.
C21_ModifierWellFormed ==
    /\ [](\A k \in DOMAIN st_calls :
            st_calls[k].op = "saveModifier" => WellFormedModifier(st_calls[k].data))
    /\ [][InvalidModifierForm =>
            \A k \in DOMAIN st_calls' :
                (st_calls'[k].op = "saveModifier" /\ st_calls'[k].state = "request") =>
                    (k \in DOMAIN st_calls /\ st_calls[k] = st_calls'[k])]_vars
    /\ [][toast' \in {"Name and at least one option required",
                      "At least one valid option required"} =>
            /\ InvalidModifierForm
            /\ isModifierDialogOpen /\ isModifierDialogOpen'
            /\ UNCHANGED <<st_calls, modifier_store, modifierForm>>]_vars

\* a modifier was created from a form that also held a blank option, and a
\* save with a blank name has just been refused
C21_Witness ==
    /\ Len(modifier_store) = 1
    /\ modifier_store[1].name = "Size"
    /\ modifier_store[1].options = <<"S">>
    /\ modifierForm.name = ""
    /\ modifierForm.options = <<" ", "S">>
    /\ isModifierDialogOpen
    /\ toast = "Name and at least one option required"
\* C28: a protected page is shown, and requests of a page are in flight, only
\* with a token in localStorage; without a token the browser shows /login
\* after every step; and when fetchData of Inventory settles on a 401 the
\* browser shows /login.
C28_ProtectedNeedsToken ==
    /\ [](location \in ProtectedPaths => token /= Null)
    /\ [](PageCalls > 0 => token /= Null)
    /\ [](token = Null => location = "/login")
    /\ [][(/\ \E k \in DOMAIN iv_calls :
                /\ iv_calls[k].state = "rejected"
                /\ iv_calls[k].status = 401
           /\ iv_calls' = <<>>
           /\ ~iv_loading') => location' = "/login"]_vars

\* Inventory was shown with a token, its data load was answered with 401 and
\* the browser is back on /login
C28_Witness ==
    /\ token /= Null
    /\ location = "/login"
    /\ ~iv_loading
    /\ iv_calls = <<>>

\* C29: token and user are written, and Login navigates to /, only in the
\* step that handles a successful auth response; the step that handles a
\* failed one leaves localStorage and the path as they are; loading is true
\* while an auth request is in flight and no second one is in flight with it.
C29_LoginOnlyOnSuccess ==
    /\ [][(token' /= token \/ user' /= user
           \/ toast' \in {"Welcome back!", "Account created!"}) =>
            \E k \in DOMAIN lg_calls :
                /\ lg_calls[k].state = "resolved"
                /\ token' = lg_calls[k].access_token
                /\ user' = lg_calls[k].user
                /\ location = "/login" /\ location' = "/"
                /\ toast' \in {"Welcome back!", "Account created!"}]_vars
    /\ [][toast' \in {"Authentication failed"} \cup (AuthDetails \ {""}) =>
            /\ \E k \in DOMAIN lg_calls : lg_calls[k].state = "rejected"
            /\ UNCHANGED <<token, user, location>>
            /\ location = "/login"]_vars
    /\ [](Len(lg_calls) > 0 => lg_loading)
    /\ [](Len(lg_calls) <= 1)

\* a sign-in succeeded: token and user are stored and the Dashboard is mounted
C29_Witness ==
    /\ token = IssuedToken
    /\ user = AdminUser
    /\ location = "/"
    /\ toast = "Welcome back!"
    /\ fetchMenuCall.state = "request"
====
